---- MODULE Spec2Model ----
(***************************************************************************)
(* Shrdlite: the Interpreter (goal formulas in DNF from parsed commands)   *)
(* and the Planner (StateGraph over arm/holding/stacks, goal test,         *)
(* heuristic, plan reconstruction).                                        *)
(*                                                                         *)
(* Conventions.  Column and stack positions keep the 0-based indices of    *)
(* the source; a TLA+ sequence s holds the source's s[k] at s[k + 1].      *)
(* JavaScript null is Null for ids and commands and NullIdx for indices.   *)
(* A Stack[] is a sequence of references into heap, one per column, so     *)
(* that sharing of column arrays between nodes is visible.                 *)
(***************************************************************************)
EXTENDS Integers, Sequences, FiniteSets, TLC

VARIABLES
    objects,          \* WorldState.objects: id -> ObjectDefinition
    heap,             \* the column arrays (Stack objects), by reference
    world,            \* WorldState: arm, holding, stacks (references)
    current,          \* the NodeState the search is at
    steps,            \* number of edges followed from the start node
    parses,           \* the parses handed to interpret
    interpretations,  \* result of interpret: the DNF formulas or the error
    plans,            \* result of plan: the plans or the error
    otherNode,        \* the NodeState that current is compared to
    result,           \* result of compareNodes(current, other)
    call,             \* a call of isValidGoal: its arguments and what it returned
    runs,             \* what the runs of interpretCommand on one command returned
    pc                \* position in the run: which call comes next

vars == <<objects, heap, world, current, steps, parses, interpretations, plans, otherNode, result,
          call, runs, pc>>

-----------------------------------------------------------------------------
(* Bounds of the model *)

MaxColumns == 2
MaxSteps == 3

-----------------------------------------------------------------------------
(* Values *)

Null == "null"
NullIdx == -1
Floor == "floor"

Forms == {"brick", "plank", "ball", "box", "pyramid", "table"}
Sizes == {"small", "large"}
Relations == {"leftof", "rightof", "beside", "inside", "ontop", "above", "under"}

ObjectDefinition(f, s, c) == [form |-> f, size |-> s, color |-> c]

Last(s) == s[Len(s)]
Front(s) == SubSeq(s, 1, Len(s) - 1)
Range(s) == {s[i] : i \in 1..Len(s)}
Abs(x) == IF x < 0 THEN -x ELSE x

(* The columns a Stack[] reference sequence denotes in heap h. *)
Columns(stacks, h) == [i \in 1..Len(stacks) |-> h[stacks[i]]]

Refs(n) == [i \in 1..n |-> i]

(* the ids of all columns, right to left *)
RECURSIVE FlattenRightToLeft(_)
FlattenRightToLeft(stacks) ==
    IF stacks = <<>> THEN <<>> ELSE Last(stacks) \o FlattenRightToLeft(Front(stacks))

(* Array.prototype.concat.apply([], stacks): the ids of all columns, left to
   right, bottom to top. *)
RECURSIVE Flatten(_)
Flatten(stacks) ==
    IF stacks = <<>> THEN <<>> ELSE Flatten(Front(stacks)) \o Last(stacks)

-----------------------------------------------------------------------------
(* Interpreter: positions and spatial predicates (over column values) *)

getColumnIndex(objId, stacks) ==
    IF \E i \in 0..Len(stacks) - 1 : objId \in Range(stacks[i + 1])
    THEN CHOOSE i \in 0..Len(stacks) - 1 :
            /\ objId \in Range(stacks[i + 1])
            /\ \A k \in 0..i - 1 : objId \notin Range(stacks[k + 1])
    ELSE NullIdx

getStackIndex(objId, i, stacks) ==
    IF objId \in Range(stacks[i + 1])
    THEN CHOOSE j \in 0..Len(stacks[i + 1]) - 1 :
            /\ stacks[i + 1][j + 1] = objId
            /\ \A k \in 0..j - 1 : stacks[i + 1][k + 1] # objId
    ELSE NullIdx

isLeftOf(objIds, i, stacks) ==
    /\ i + 1 >= 0
    /\ \E k \in 1..Len(objIds) : \E n \in i + 1..Len(stacks) - 1 :
          objIds[k] \in Range(stacks[n + 1])

(* isRightOf that also looks in the column i itself *)
isRightOfOrSame(objIds, i, stacks) ==
    /\ i >= 0
    /\ \E k \in 1..Len(objIds) : \E n \in 0..i :
          objIds[k] \in Range(stacks[n + 1])

isRightOf(objIds, i, stacks) ==
    /\ i >= 0
    /\ \E k \in 1..Len(objIds) : \E n \in 0..i - 1 :
          objIds[k] \in Range(stacks[n + 1])

(* isBeside reads stacks[i + 1].length for each target when the left
   neighbour did not answer; with i the last column that read is of
   undefined and throws a TypeError. *)
isBesideLeft(objIds, i, stacks) ==
    /\ i - 1 >= 0
    /\ \E n \in 1..Len(objIds) : objIds[n] \in Range(stacks[i])

isBesideThrows(objIds, i, stacks) ==
    /\ ~isBesideLeft(objIds, i, stacks)
    /\ i + 1 >= 0
    /\ Len(objIds) > 0
    /\ i + 1 > Len(stacks) - 1

(* isBeside that takes the floor to be beside every column *)
isBesideFloor(objIds, i, stacks) ==
    \/ Floor \in Range(objIds)
    \/ isBesideLeft(objIds, i, stacks)
    \/ /\ i + 1 >= 0
       /\ i + 1 <= Len(stacks) - 1
       /\ \E n \in 1..Len(objIds) : objIds[n] \in Range(stacks[i + 2])

isBeside(objIds, i, stacks) ==
    \/ isBesideLeft(objIds, i, stacks)
    \/ /\ i + 1 >= 0
       /\ i + 1 <= Len(stacks) - 1
       /\ \E n \in 1..Len(objIds) : objIds[n] \in Range(stacks[i + 2])

(* stacks[i][j], undefined (Null here) past the top of the column *)
At(stacks, i, j) ==
    IF j + 1 \in 1..Len(stacks[i + 1]) THEN stacks[i + 1][j + 1] ELSE Null

(* objIds[0] == "floor"; objIds[0] of an empty array is undefined *)
firstIsFloor(objIds) == Len(objIds) > 0 /\ objIds[1] = Floor

isInside(objIds, i, j, stacks, objDefs) ==
    /\ ~firstIsFloor(objIds)
    /\ i >= 0 /\ j >= 0
    /\ \E n \in 1..Len(objIds) :
          /\ objDefs[objIds[n]].form = "box"
          /\ objIds[n] = At(stacks, i, j)

(* isOnTop without the test of the target's form *)
isOnTopAnyForm(objIds, i, j, stacks, objDefs) ==
    IF firstIsFloor(objIds)
    THEN j < 0
    ELSE /\ i >= 0 /\ j >= 0
         /\ \E n \in 1..Len(objIds) : objIds[n] = At(stacks, i, j)

isOnTop(objIds, i, j, stacks, objDefs) ==
    IF firstIsFloor(objIds)
    THEN j < 0
    ELSE /\ i >= 0 /\ j >= 0
         /\ \E n \in 1..Len(objIds) :
               /\ ~(objDefs[objIds[n]].form = "box" \/ objDefs[objIds[n]].form = "ball")
               /\ objIds[n] = At(stacks, i, j)

isAbove(objIds, i, j, stacks) ==
    \/ firstIsFloor(objIds)
    \/ \E n \in 1..Len(objIds) : \E k \in 0..j - 1 : objIds[n] = At(stacks, i, k)

isUnder(objIds, i, j, stacks) ==
    /\ ~firstIsFloor(objIds)
    /\ \E n \in 1..Len(objIds) : \E k \in j..Len(stacks[i + 1]) - 1 :
          objIds[n] = At(stacks, i, k)

-----------------------------------------------------------------------------
(* Interpreter: the physical laws *)

(* isValidGoal reads cmdObj.size or cmdObj.form in the inside, ontop and
   above cases; objects[aObj] is undefined for an id that is no key of
   objects (null, when nothing is held) and the read throws a TypeError. *)
isValidGoalThrows(relation, objDefs, aObj, bObj) ==
    /\ aObj # bObj
    /\ aObj # Floor
    /\ bObj # Floor
    /\ relation \in {"inside", "ontop", "above"}
    /\ aObj \notin DOMAIN objDefs

(* the inside case without the rule on a pyramid, plank or box of the
   container's size *)
insideInvalidSizeOnly(cmdObj, locObj) ==
    \/ (cmdObj.size = "large" /\ locObj.size = "small")
    \/ locObj.form # "box"

insideInvalid(cmdObj, locObj) ==
    \/ (cmdObj.size = "large" /\ locObj.size = "small")
    \/ locObj.form # "box"
    \/ /\ cmdObj.form \in {"pyramid", "plank", "box"}
       /\ cmdObj.size = locObj.size

(* the ontop and above case that lets an object rest ontop of a box *)
ontopInvalidBoxAllowed(relation, cmdObj, locObj) ==
    \/ (cmdObj.form = "ball" /\ ~(locObj.form = "floor") /\ relation = "ontop")
    \/ locObj.form = "ball"
    \/ (cmdObj.size = "large" /\ locObj.size = "small")
    \/ /\ cmdObj.form = "box" /\ cmdObj.size = "small"
       /\ locObj.size = "small" /\ locObj.form \in {"brick", "pyramid"}
    \/ /\ cmdObj.form = "box" /\ cmdObj.size = "large"
       /\ locObj.form = "pyramid" /\ locObj.size = "large"

(* the ontop and above case without the rule on a large box and a large
   pyramid *)
ontopInvalidNoPyramid(relation, cmdObj, locObj) ==
    \/ (cmdObj.form = "ball" /\ ~(locObj.form = "floor") /\ relation = "ontop")
    \/ locObj.form = "ball"
    \/ (cmdObj.size = "large" /\ locObj.size = "small")
    \/ /\ cmdObj.form = "box" /\ cmdObj.size = "small"
       /\ locObj.size = "small" /\ locObj.form \in {"brick", "pyramid"}
    \/ (relation = "ontop" /\ (locObj.form = "ball" \/ locObj.form = "box"))

ontopInvalid(relation, cmdObj, locObj) ==
    \/ (cmdObj.form = "ball" /\ ~(locObj.form = "floor") /\ relation = "ontop")
    \/ locObj.form = "ball"
    \/ (cmdObj.size = "large" /\ locObj.size = "small")
    \/ /\ cmdObj.form = "box" /\ cmdObj.size = "small"
       /\ locObj.size = "small" /\ locObj.form \in {"brick", "pyramid"}
    \/ /\ cmdObj.form = "box" /\ cmdObj.size = "large"
       /\ locObj.form = "pyramid" /\ locObj.size = "large"
    \/ (relation = "ontop" /\ (locObj.form = "ball" \/ locObj.form = "box"))

isValidGoal(relation, objDefs, aObj, bObj) ==
    IF aObj = bObj THEN FALSE
    ELSE IF aObj = Floor THEN FALSE
    ELSE IF bObj = Floor /\ relation \in {"ontop", "above"} THEN TRUE
    ELSE IF bObj = Floor /\ relation = "inside" THEN FALSE
    ELSE IF relation = "inside"
         THEN ~insideInvalid(objDefs[aObj], objDefs[bObj])
    ELSE IF relation \in {"ontop", "above"}
         THEN ~ontopInvalid(relation, objDefs[aObj], objDefs[bObj])
    ELSE TRUE

-----------------------------------------------------------------------------
(* Interpreter: interpretCommand *)

(* A call either returns or throws; error is "" when it returned. *)
NoInterpretation == "No interpretations found."
IllegalReference == "The floor cannot have relative descriptors."
TypeError == "TypeError"

(* No call of isValidGoal was made. *)
NoCall == [relation |-> Null, aObj |-> Null, bObj |-> Null, returns |-> Null]

(* WorldState as the Interpreter reads it: stacks are the column values. *)
WorldState(w, h, objDefs) ==
    [arm |-> w.arm, holding |-> w.holding, stacks |-> Columns(w.stacks, h),
     objects |-> objDefs]

(* obj.object != undefined *)
hasObject(obj) == "object" \in DOMAIN obj

matches(obj, objDef) ==
    /\ (obj.form = "anyform" \/ objDef.form = obj.form)
    /\ (obj.color = Null \/ objDef.color = obj.color)
    /\ (obj.size = Null \/ objDef.size = obj.size)

(* The case of the switch on the relative clause's relation that keeps the
   object at column i, position j. *)
keeps(relation, relatives, i, j, state) ==
    CASE relation = "leftof" -> isLeftOf(relatives, i, state.stacks)
      [] relation = "rightof" -> isRightOf(relatives, i, state.stacks)
      [] relation = "beside" -> isBeside(relatives, i, state.stacks)
      [] relation = "inside" -> isInside(relatives, i, j - 1, state.stacks, state.objects)
      [] relation = "ontop" -> isOnTop(relatives, i, j - 1, state.stacks, state.objects)
      [] relation = "above" -> isAbove(relatives, i, j, state.stacks)
      [] relation = "under" -> isUnder(relatives, i, j + 1, state.stacks)
      [] OTHER -> TRUE

(* the floor resolved whether or not it has a relative clause *)
floorIdsAnyClause(hasRelativeObj, obj) == [error |-> "", ids |-> <<obj.form>>]

(* obj.form == "floor": the floor cannot have relative descriptors. *)
floorIds(hasRelativeObj, obj) ==
    IF hasRelativeObj
    THEN [error |-> IllegalReference, ids |-> <<>>]
    ELSE [error |-> "", ids |-> <<obj.form>>]

(* a scan that also looks at the object the arm holds *)
scanIdsWithHeld(obj, state) ==
    LET kept(objId) == matches(obj, state.objects[objId])
    IN  SelectSeq(Flatten(state.stacks)
                  \o (IF state.holding = Null THEN <<>> ELSE <<state.holding>>), kept)

(* The loops over state.stacks[i][j]: the ids whose definition has the form,
   color and size asked for. *)
scanIds(obj, state) ==
    LET kept(objId) == matches(obj, state.objects[objId])
    IN  SelectSeq(Flatten(state.stacks), kept)

RECURSIVE getValidObjectIds(_, _)
getValidObjectIds(object, state) ==
    LET hasRelativeObj == hasObject(object)
        obj == IF hasRelativeObj THEN object.object ELSE object
    IN
    IF ~hasObject(obj) /\ obj.form = "floor"
    THEN floorIds(hasRelativeObj, obj)
    ELSE IF hasRelativeObj
    THEN LET objs == getValidObjectIds(obj, state)
             rels == getValidObjectIds(object.location.entity.object, state)
             relation == object.location.relation
             col(n) == getColumnIndex(objs.ids[n], state.stacks)
             kept(objId) ==
                 LET i == getColumnIndex(objId, state.stacks)
                 IN  keeps(relation, rels.ids, i, getStackIndex(objId, i, state.stacks), state)
         IN  IF objs.error # "" THEN objs
             ELSE IF rels.error # "" THEN rels
             ELSE IF /\ relation = "beside"
                     /\ \E n \in 1..Len(objs.ids) : isBesideThrows(rels.ids, col(n), state.stacks)
                  THEN [error |-> TypeError, ids |-> <<>>]
             ELSE [error |-> "", ids |-> SelectSeq(objs.ids, kept)]
    ELSE [error |-> "", ids |-> scanIds(obj, state)]

Literal(relation, args) == [polarity |-> TRUE, relation |-> relation, args |-> args]

(* The pairs (as[i], bs[j]), i in the outer loop and j in the inner one. *)
(* the loops of move with the location ids outside *)
PairsTargetsOutside(as, bs) ==
    IF as = <<>> \/ bs = <<>> THEN <<>>
    ELSE [k \in 1..Len(as) * Len(bs) |->
             <<as[((k - 1) % Len(as)) + 1], bs[((k - 1) \div Len(as)) + 1]>>]

Pairs(as, bs) ==
    IF as = <<>> \/ bs = <<>> THEN <<>>
    ELSE [k \in 1..Len(as) * Len(bs) |->
             <<as[((k - 1) \div Len(bs)) + 1], bs[((k - 1) % Len(bs)) + 1]>>]

(* take that lets the floor be held *)
takeLiteralsWithFloor(cmdObjIds) ==
    [i \in 1..Len(cmdObjIds) |-> <<Literal("holding", <<cmdObjIds[i]>>)>>]

takeLiterals(cmdObjIds) ==
    LET notFloor(objId) == objId # Floor
        ids == SelectSeq(cmdObjIds, notFloor)
    IN  [i \in 1..Len(ids) |-> <<Literal("holding", <<ids[i]>>)>>]

(* move and put with a literal for every pair *)
relationLiteralsUnchecked(relation, pairs, state) ==
    [i \in 1..Len(pairs) |-> <<Literal(relation, <<pairs[i][1], pairs[i][2]>>)>>]

(* move and put: one literal for each pair the physical laws accept *)
relationLiterals(relation, pairs, state) ==
    LET valid(pair) == isValidGoal(relation, state.objects, pair[1], pair[2])
        ps == SelectSeq(pairs, valid)
    IN  [i \in 1..Len(ps) |-> <<Literal(relation, <<ps[i][1], ps[i][2]>>)>>]

(* the end of interpretCommand without the test for an empty formula *)
interpretCommandReturnAny(interpretation) ==
    [error |-> "", interpretation |-> interpretation]

(* The end of interpretCommand: no valid interpretation was found, or the
   formula. *)
interpretCommandReturn(interpretation) ==
    IF Len(interpretation) = 0
    THEN [error |-> NoInterpretation, interpretation |-> <<>>]
    ELSE [error |-> "", interpretation |-> interpretation]

interpretCommand(cmd, state) ==
    LET cmdObjIds == IF "entity" \in DOMAIN cmd
                     THEN getValidObjectIds(cmd.entity.object, state)
                     ELSE [error |-> "", ids |-> <<>>]
        locObjIds == IF "location" \in DOMAIN cmd
                     THEN getValidObjectIds(cmd.location.entity.object, state)
                     ELSE [error |-> "", ids |-> <<>>]
        pairs == IF cmd.command = "move" THEN Pairs(cmdObjIds.ids, locObjIds.ids)
                 ELSE IF cmd.command = "put" THEN Pairs(<<state.holding>>, locObjIds.ids)
                 ELSE <<>>
        interpretation ==
            IF cmd.command = "take" THEN takeLiterals(cmdObjIds.ids)
            ELSE IF cmd.command \in {"move", "put"}
                 THEN relationLiterals(cmd.location.relation, pairs, state)
            ELSE <<>>
    IN  IF cmdObjIds.error # "" THEN [error |-> cmdObjIds.error, interpretation |-> <<>>]
        ELSE IF locObjIds.error # "" THEN [error |-> locObjIds.error, interpretation |-> <<>>]
        ELSE IF \E k \in 1..Len(pairs) :
                    isValidGoalThrows(cmd.location.relation, state.objects, pairs[k][1], pairs[k][2])
             THEN [error |-> TypeError, interpretation |-> <<>>]
        ELSE interpretCommandReturn(interpretation)

(* interpret: the parses that interpretCommand accepts, each with its
   formula, in the order of parses; the first error when there is none. *)
interpretAdd(before, parseresult, r) ==
    IF r.error = ""
    THEN [before EXCEPT !.interpretations =
            Append(@, [parse |-> parseresult.parse, interpretation |-> r.interpretation])]
    ELSE [before EXCEPT !.errors = Append(@, r.error)]

RECURSIVE interpretCollect(_, _, _)
interpretCollect(parseresults, n, currentState) ==
    IF n = 0 THEN [interpretations |-> <<>>, errors |-> <<>>]
    ELSE interpretAdd(interpretCollect(parseresults, n - 1, currentState), parseresults[n],
                      interpretCommand(parseresults[n].parse, currentState))

(* interpret that throws the first error caught, whatever succeeded *)
interpretReturnFirstError(all) ==
    IF Len(all.errors) = 0
    THEN [error |-> "", interpretations |-> all.interpretations]
    ELSE [error |-> all.errors[1], interpretations |-> <<>>]

interpretReturn(all) ==
    IF Len(all.interpretations) > 0
    THEN [error |-> "", interpretations |-> all.interpretations]
    ELSE [error |-> all.errors[1], interpretations |-> <<>>]

interpret(parseresults, currentState) ==
    interpretReturn(interpretCollect(parseresults, Len(parseresults), currentState))

-----------------------------------------------------------------------------
(* Planner: NodeState *)

(* Array.prototype.toString: the elements' strings joined by "," *)
RECURSIVE Join(_)
Join(strs) ==
    IF strs = <<>> THEN ""
    ELSE IF Len(strs) = 1 THEN strs[1]
    ELSE Join(Front(strs)) \o "," \o Last(strs)

StacksToString(cols) == Join([i \in 1..Len(cols) |-> Join(cols[i])])

(* new NodeState(arm, holding, stacks, command, objDefs); objDefs is the one
   objects map of the world and is read from there. *)
NodeState(arm, holding, stacks, command) ==
    [arm |-> arm, holding |-> holding, stacks |-> stacks, command |-> command]

(* A node as its readers see it: its stacks are the columns in heap h. *)
View(n, h) == [n EXCEPT !.stacks = Columns(n.stacks, h)]

(* this.id = this.stacks + this.holding + this.arm + this.command, of the
   node as read.  The constructor runs after the pop or push that makes the
   node's columns; the id is read here from those columns where nodes are
   compared. *)
id(this) == StacksToString(this.stacks) \o this.holding \o ToString(this.arm) \o this.command

compareTo(this, other) == IF id(this) = id(other) THEN 0 ELSE -1

compareNodes(a, b) == compareTo(a, b)

-----------------------------------------------------------------------------
(* Planner: StateGraph *)

(* cloneStacks returning the columns it was given *)
cloneStacksShallow(stacks, h) == [stacks |-> stacks, heap |-> h]

(* A fresh outer array of fresh column arrays, filled element by element. *)
cloneStacks(stacks, h) ==
    [stacks |-> [i \in 1..Len(stacks) |-> Len(h) + i],
     heap |-> h \o Columns(stacks, h)]

Edge(from, cost, to) == [from |-> from, cost |-> cost, to |-> to]

(* pick that reads the top of the column and leaves it there *)
pickEdgeNoPop(n, h) ==
    IF n.holding = Null /\ Len(h[n.stacks[n.arm + 1]]) # 0
    THEN LET c == cloneStacks(n.stacks, h)
         IN  [edges |-> <<Edge(n, 1, NodeState(n.arm, Last(c.heap[c.stacks[n.arm + 1]]),
                                               c.stacks, "p"))>>,
              heap |-> c.heap]
    ELSE [edges |-> <<>>, heap |-> h]

(* pick that pops the node's own column *)
pickEdgeInPlace(n, h) ==
    IF n.holding = Null /\ Len(h[n.stacks[n.arm + 1]]) # 0
    THEN LET ref == n.stacks[n.arm + 1]
         IN  [edges |-> <<Edge(n, 1, NodeState(n.arm, Last(h[ref]), n.stacks, "p"))>>,
              heap |-> [h EXCEPT ![ref] = Front(@)]]
    ELSE [edges |-> <<>>, heap |-> h]

pickEdge(n, h) ==
    IF n.holding = Null /\ Len(h[n.stacks[n.arm + 1]]) # 0
    THEN LET c == cloneStacks(n.stacks, h)
             ref == c.stacks[n.arm + 1]
             holding == Last(c.heap[ref])
             h1 == [c.heap EXCEPT ![ref] = Front(@)]
         IN  [edges |-> <<Edge(n, 1, NodeState(n.arm, holding, c.stacks, "p"))>>,
              heap |-> h1]
    ELSE [edges |-> <<>>, heap |-> h]

(* right that does not look at the number of columns *)
rightEdgeUnbounded(n, h) ==
    LET c == cloneStacks(n.stacks, h)
    IN  [edges |-> <<Edge(n, 1, NodeState(n.arm + 1, n.holding, c.stacks, "r"))>>,
         heap |-> c.heap]

rightEdge(n, h) ==
    IF n.arm < Len(n.stacks) - 1
    THEN LET c == cloneStacks(n.stacks, h)
         IN  [edges |-> <<Edge(n, 1, NodeState(n.arm + 1, n.holding, c.stacks, "r"))>>,
              heap |-> c.heap]
    ELSE [edges |-> <<>>, heap |-> h]

leftEdge(n, h) ==
    IF n.arm > 0
    THEN LET c == cloneStacks(n.stacks, h)
         IN  [edges |-> <<Edge(n, 1, NodeState(n.arm - 1, n.holding, c.stacks, "l"))>>,
              heap |-> c.heap]
    ELSE [edges |-> <<>>, heap |-> h]

topObject(stack) == IF Len(stack) > 0 THEN Last(stack) ELSE Floor

(* drop that does not ask isValidGoal *)
dropEdgeUnchecked(n, h, objDefs) ==
    IF n.holding # Null
    THEN LET c == cloneStacks(n.stacks, h)
         IN  [edges |-> <<Edge(n, 1, NodeState(n.arm, Null, c.stacks, "d"))>>,
              heap |-> [c.heap EXCEPT ![c.stacks[n.arm + 1]] = Append(@, n.holding)]]
    ELSE [edges |-> <<>>, heap |-> h]

(* drop that pushes the held id and keeps holding it *)
dropEdgeKeepsHolding(n, h, objDefs) ==
    IF /\ n.holding # Null
       /\ \/ isValidGoal("inside", objDefs, n.holding, topObject(h[n.stacks[n.arm + 1]]))
          \/ isValidGoal("ontop", objDefs, n.holding, topObject(h[n.stacks[n.arm + 1]]))
    THEN LET c == cloneStacks(n.stacks, h)
         IN  [edges |-> <<Edge(n, 1, NodeState(n.arm, n.holding, c.stacks, "d"))>>,
              heap |-> [c.heap EXCEPT ![c.stacks[n.arm + 1]] = Append(@, n.holding)]]
    ELSE [edges |-> <<>>, heap |-> h]

(* drop that lets go of the held id without pushing it *)
dropEdgeNoPush(n, h, objDefs) ==
    IF /\ n.holding # Null
       /\ \/ isValidGoal("inside", objDefs, n.holding, topObject(h[n.stacks[n.arm + 1]]))
          \/ isValidGoal("ontop", objDefs, n.holding, topObject(h[n.stacks[n.arm + 1]]))
    THEN LET c == cloneStacks(n.stacks, h)
         IN  [edges |-> <<Edge(n, 1, NodeState(n.arm, Null, c.stacks, "d"))>>,
              heap |-> c.heap]
    ELSE [edges |-> <<>>, heap |-> h]

(* drop that asks isValidGoal for ontop only *)
dropEdgeOntopOnly(n, h, objDefs) ==
    IF /\ n.holding # Null
       /\ isValidGoal("ontop", objDefs, n.holding, topObject(h[n.stacks[n.arm + 1]]))
    THEN LET c == cloneStacks(n.stacks, h)
             ref == c.stacks[n.arm + 1]
             h1 == [c.heap EXCEPT ![ref] = Append(@, n.holding)]
         IN  [edges |-> <<Edge(n, 1, NodeState(n.arm, Null, c.stacks, "d"))>>,
              heap |-> h1]
    ELSE [edges |-> <<>>, heap |-> h]

dropEdge(n, h, objDefs) ==
    IF /\ n.holding # Null
       /\ \/ isValidGoal("inside", objDefs, n.holding, topObject(h[n.stacks[n.arm + 1]]))
          \/ isValidGoal("ontop", objDefs, n.holding, topObject(h[n.stacks[n.arm + 1]]))
    THEN LET c == cloneStacks(n.stacks, h)
             ref == c.stacks[n.arm + 1]
             h1 == [c.heap EXCEPT ![ref] = Append(@, n.holding)]
         IN  [edges |-> <<Edge(n, 1, NodeState(n.arm, Null, c.stacks, "d"))>>,
              heap |-> h1]
    ELSE [edges |-> <<>>, heap |-> h]

(* outgoingEdges that looks at drop first *)
outgoingEdgesDropFirst(n, h, objDefs) ==
    LET d == dropEdge(n, h, objDefs)
        p == pickEdge(n, d.heap)
        r == rightEdge(n, p.heap)
        l == leftEdge(n, r.heap)
    IN  [edges |-> d.edges \o p.edges \o r.edges \o l.edges, heap |-> l.heap]

(* The edges in the order pick, right, left, drop, and the heap after the
   call. *)
outgoingEdges(n, h, objDefs) ==
    LET p == pickEdge(n, h)
        r == rightEdge(n, p.heap)
        l == leftEdge(n, r.heap)
        d == dropEdge(n, l.heap, objDefs)
    IN  [edges |-> p.edges \o r.edges \o l.edges \o d.edges, heap |-> d.heap]


-----------------------------------------------------------------------------
(* Planner: goal test and heuristic, on a node as read (View) *)

(* isLiteralGoal throws where isBeside does. *)
isLiteralGoalThrows(this, literal) ==
    /\ literal.relation = "beside"
    /\ getColumnIndex(literal.args[1], this.stacks) # NullIdx
    /\ isBesideThrows(<<literal.args[2]>>, getColumnIndex(literal.args[1], this.stacks),
                      this.stacks)

isLiteralGoal(this, literal, objDefs) ==
    IF literal.relation = "holding"
    THEN literal.args[1] = this.holding
    ELSE LET columnIndex == getColumnIndex(literal.args[1], this.stacks)
             stackIndex == getStackIndex(literal.args[1], columnIndex, this.stacks)
             target == <<literal.args[2]>>
         IN  /\ columnIndex # NullIdx
             /\ CASE literal.relation = "inside" ->
                       isInside(target, columnIndex, stackIndex - 1, this.stacks, objDefs)
                  [] literal.relation = "ontop" ->
                       isOnTop(target, columnIndex, stackIndex - 1, this.stacks, objDefs)
                  [] literal.relation = "leftof" -> isLeftOf(target, columnIndex, this.stacks)
                  [] literal.relation = "rightof" -> isRightOf(target, columnIndex, this.stacks)
                  [] literal.relation = "beside" -> isBeside(target, columnIndex, this.stacks)
                  [] literal.relation = "above" ->
                       isAbove(target, columnIndex, stackIndex, this.stacks)
                  [] literal.relation = "under" ->
                       isUnder(target, columnIndex, stackIndex + 1, this.stacks)
                  [] OTHER -> FALSE

(* The literals of a conjunction are tested in order up to the first that
   does not hold; "throw" when that one throws. *)
conjunctionFlag(node, conjunction, objDefs) ==
    LET stops(j) == \/ isLiteralGoalThrows(node, conjunction[j])
                    \/ ~isLiteralGoal(node, conjunction[j], objDefs)
    IN  IF \A j \in 1..Len(conjunction) : ~stops(j) THEN "true"
        ELSE LET j == CHOOSE j \in 1..Len(conjunction) :
                        stops(j) /\ \A k \in 1..j - 1 : ~stops(k)
             IN  IF isLiteralGoalThrows(node, conjunction[j]) THEN "throw" ELSE "false"

(* The conjunctions are tested in order up to the first that holds. *)
goalResult(node, interpretation, objDefs) ==
    LET ends(i) == conjunctionFlag(node, interpretation[i], objDefs) # "false"
    IN  IF \A i \in 1..Len(interpretation) : ~ends(i) THEN "false"
        ELSE conjunctionFlag(node,
                 interpretation[CHOOSE i \in 1..Len(interpretation) :
                                   ends(i) /\ \A k \in 1..i - 1 : ~ends(k)], objDefs)

isGoalThrows(node, interpretation, objDefs) ==
    goalResult(node, interpretation, objDefs) = "throw"

isGoal(node, interpretation, objDefs) ==
    goalResult(node, interpretation, objDefs) = "true"

(* Interpreter.aboveObjects(objId, stacks): the number of objects above
   objId in its column; no object is above an id that is in no column. *)
aboveObjects(objId, stacks) ==
    LET i == getColumnIndex(objId, stacks)
    IN  IF i = NullIdx THEN 0
        ELSE Len(stacks[i + 1]) - 1 - getStackIndex(objId, i, stacks)

(* ToNumber of an index in arithmetic: null is 0 *)
ToNumber(x) == IF x = NullIdx THEN 0 ELSE x

(* args[index], undefined (Null) past the end *)
Arg(literal, index) ==
    IF index + 1 \in 1..Len(literal.args) THEN literal.args[index + 1] ELSE Null

Infinity == 1000000

hCost(node, literal) ==
    LET nrObjectsAbove(index) == aboveObjects(Arg(literal, index), node.stacks)
        armToTarget(index) ==
            Abs(node.arm - ToNumber(getColumnIndex(Arg(literal, index), node.stacks)))
        distBtwObjs ==
            Abs(ToNumber(getColumnIndex(Arg(literal, 0), node.stacks))
                - ToNumber(getColumnIndex(Arg(literal, 1), node.stacks)))
    IN  CASE literal.relation = "holding" -> (nrObjectsAbove(0) * 4) + armToTarget(0)
          [] literal.relation \in {"inside", "ontop"} ->
               ((nrObjectsAbove(0) + nrObjectsAbove(1)) * 3) + armToTarget(0) + armToTarget(1)
          [] literal.relation = "under" ->
               (nrObjectsAbove(1) * 4) + distBtwObjs + armToTarget(1)
          [] literal.relation = "above" ->
               (nrObjectsAbove(0) * 4) + distBtwObjs + armToTarget(0)
          [] literal.relation \in {"leftof", "rightof"} ->
               (nrObjectsAbove(0) * 4) + distBtwObjs + armToTarget(0)
          [] literal.relation = "beside" ->
               (nrObjectsAbove(0) * 4) + distBtwObjs + armToTarget(0) - 1
          [] OTHER -> Infinity

Min(a, b) == IF a < b THEN a ELSE b

(* All literals in the order the two loops visit them. *)
RECURSIVE Literals(_)
Literals(interpretation) ==
    IF interpretation = <<>> THEN <<>>
    ELSE Literals(Front(interpretation)) \o Last(interpretation)

(* heuristics tests every literal in order up to the first that holds or
   throws. *)
heuristicsThrows(node, interpretation, objDefs) ==
    LET lits == Literals(interpretation)
    IN  \E j \in 1..Len(lits) :
           /\ isLiteralGoalThrows(node, lits[j])
           /\ \A k \in 1..j - 1 : ~isLiteralGoal(node, lits[k], objDefs)

(* 0 when some literal holds; else the least, over the conjunctions, of the
   cost of the conjunction's last literal. *)
heuristics(node, interpretation, objDefs) ==
    LET lits == Literals(interpretation)
        RECURSIVE least(_)
        least(i) ==
            IF i = 0 THEN Infinity
            ELSE Min(least(i - 1),
                     IF interpretation[i] = <<>> THEN Infinity
                     ELSE hCost(node, Last(interpretation[i])))
    IN  IF \E j \in 1..Len(lits) : isLiteralGoal(node, lits[j], objDefs)
        THEN 0
        ELSE least(Len(interpretation))

-----------------------------------------------------------------------------
(* Planner: the search driver and the plan *)

(* graph.outgoingEdges(node) as the driver reads it: the successor nodes,
   in the order of the edges. *)
Successors(v, objDefs) ==
    LET out == outgoingEdges(NodeState(v.arm, v.holding, Refs(Len(v.stacks)), v.command),
                             v.stacks, objDefs)
    IN  [k \in 1..Len(out.edges) |-> View(out.edges[k].to, out.heap)]

(* What the driver's closed set tells nodes apart by, as its contract says. *)
Key(v) == <<v.arm, v.holding, v.stacks>>

(* isGoal or heuristics throws on a node of the level *)
levelThrows(level, interpretation, objDefs) ==
    \E n \in level : \/ isGoalThrows(n, interpretation, objDefs)
                     \/ heuristicsThrows(n, interpretation, objDefs)

goalsOf(level, interpretation, objDefs) ==
    {n \in level : isGoal(n, interpretation, objDefs)}

(* The successors of the level's nodes that the closed set does not hold *)
nextLevel(level, closed, objDefs) ==
    UNION {{s \in Range(Successors(n, objDefs)) : Key(s) \notin closed} : n \in level}

(* The nodes by their cost from the start, level by level (every edge costs
   1), up to the first level that holds a goal node: levels[k] are the
   nodes of cost k - 1, closed the keys of the nodes of all levels; threw
   tells that isGoal or heuristics throws on a node of some level. *)
RECURSIVE searchLevels(_, _, _, _, _), searchNext(_, _, _, _, _, _)
searchLevels(levels, closed, threw, interpretation, objDefs) ==
    IF Last(levels) = {} \/ goalsOf(Last(levels), interpretation, objDefs) # {}
    THEN [levels |-> levels,
          threw |-> threw \/ levelThrows(Last(levels), interpretation, objDefs)]
    ELSE searchNext(levels, closed, nextLevel(Last(levels), closed, objDefs),
                    threw \/ levelThrows(Last(levels), interpretation, objDefs),
                    interpretation, objDefs)

searchNext(levels, closed, next, threw, interpretation, objDefs) ==
    searchLevels(Append(levels, next), closed \cup {Key(s) : s \in next}, threw,
                 interpretation, objDefs)

(* The paths from the start to node n of levels[k] *)
RECURSIVE pathsTo(_, _, _, _)
pathsTo(levels, k, n, objDefs) ==
    IF k = 1 THEN {<<n>>}
    ELSE UNION {{Append(q, n) : q \in pathsTo(levels, k - 1, m, objDefs)} :
                m \in {m \in levels[k - 1] : n \in Range(Successors(m, objDefs))}}

NoPath == "NoPath"

SearchResult(error, path) == [error |-> error, path |-> path]

searchReturn(levels, goals, threw, objDefs) ==
    UNION {{SearchResult("", q) : q \in pathsTo(levels, Len(levels), n, objDefs)} : n \in goals}
    \cup (IF threw THEN {SearchResult(TypeError, <<>>)} ELSE {})
    \cup (IF goals = {} /\ ~threw THEN {SearchResult(NoPath, <<>>)} ELSE {})

searchEnd(r, interpretation, objDefs) ==
    searchReturn(r.levels, goalsOf(Last(r.levels), interpretation, objDefs), r.threw, objDefs)

(* aStarSearch(graph, start, isGoal, heuristics, 30): a lowest-cost path
   from start to a goal node; fails when there is none, and when isGoal or
   heuristics throws on a node it tests. *)
aStarSearch(start, interpretation, objDefs) ==
    IF isGoalThrows(start, interpretation, objDefs)
    THEN {SearchResult(TypeError, <<>>)}
    ELSE searchEnd(searchLevels(<<{start}>>, {Key(start)}, FALSE, interpretation, objDefs),
                   interpretation, objDefs)

describeObject(objDef) == objDef.size \o " " \o objDef.color \o " " \o objDef.form

(* describeMove that takes every pick to be the last action *)
describeMoveTaking(node, isLastInd, cmd, objDefs) ==
    IF cmd = "p"
    THEN "Taking the " \o describeObject(objDefs[node.holding])
    ELSE LET stack == node.stacks[node.arm + 1]
         IN  "Dropping the " \o describeObject(objDefs[stack[Len(stack)]])
             \o (IF Len(stack) = 1 THEN " on the floor"
                 ELSE IF objDefs[stack[Len(stack) - 1]].form = "box"
                      THEN " inside the " \o describeObject(objDefs[stack[Len(stack) - 1]])
                      ELSE " on top the " \o describeObject(objDefs[stack[Len(stack) - 1]]))

describeMove(node, isLastInd, cmd, objDefs) ==
    IF cmd = "p"
    THEN (IF isLastInd THEN "Taking the " ELSE "Moving the ")
         \o describeObject(objDefs[node.holding])
    ELSE LET stack == node.stacks[node.arm + 1]
         IN  "Dropping the " \o describeObject(objDefs[stack[Len(stack)]])
             \o (IF Len(stack) = 1 THEN " on the floor"
                 ELSE IF objDefs[stack[Len(stack) - 1]].form = "box"
                      THEN " inside the " \o describeObject(objDefs[stack[Len(stack) - 1]])
                      ELSE " on top the " \o describeObject(objDefs[stack[Len(stack) - 1]]))

(* The loop body that also says which way the arm moves *)
planOfNodeSayMoves(node, isLastInd, objDefs) ==
    IF node.command # Null
    THEN (IF node.command = "p" \/ node.command = "d"
          THEN <<describeMove(node, isLastInd, node.command, objDefs)>>
          ELSE IF node.command = "l" THEN <<"Moving left">> ELSE <<"Moving right">>)
         \o <<node.command>>
    ELSE <<>>

(* What the loop of planInterpretation pushes for one node of the path *)
planOfNode(node, isLastInd, objDefs) ==
    IF node.command # Null
    THEN (IF node.command = "p" \/ node.command = "d"
          THEN <<describeMove(node, isLastInd, node.command, objDefs)>>
          ELSE <<>>)
         \o <<node.command>>
    ELSE <<>>

(* The loop that pushes only what it describes *)
RECURSIVE planOfPathNoMoves(_, _, _)
planOfPathNoMoves(path, n, objDefs) ==
    IF n = 0 THEN <<>>
    ELSE planOfPathNoMoves(path, n - 1, objDefs)
         \o (IF path[n].command = "p" \/ path[n].command = "d"
             THEN planOfNode(path[n], n = Len(path), objDefs)
             ELSE <<>>)

(* The loop that stops one node before the end of the path *)
RECURSIVE planOfPathShort(_, _, _)
planOfPathShort(path, n, objDefs) ==
    IF n <= 1 THEN <<>>
    ELSE planOfPathShort(path, n - 1, objDefs)
         \o planOfNode(path[n - 1], n - 1 = Len(path), objDefs)

(* The loop of planInterpretation over searchResult.path *)
RECURSIVE planOfPath(_, _, _)
planOfPath(path, n, objDefs) ==
    IF n = 0 THEN <<>>
    ELSE planOfPath(path, n - 1, objDefs) \o planOfNode(path[n], n = Len(path), objDefs)

(* planInterpretation: one result for each outcome of the search *)
planInterpretation(interpretation, state) ==
    {IF r.error # "" THEN [error |-> r.error, plan |-> <<>>]
     ELSE [error |-> "", plan |-> planOfPath(r.path, Len(r.path), state.objects)] :
        r \in aStarSearch(NodeState(state.arm, state.holding, state.stacks, Null),
                          interpretation, state.objects)}

AlreadyTrue == "That is already true!"

(* plan's forEach body that pushes the plan as planInterpretation gave it *)
planAddAsIs(all, interp, r) ==
    IF r.error = ""
    THEN [all EXCEPT !.plans =
            Append(@, [parse |-> interp.parse, interpretation |-> interp.interpretation,
                       plan |-> r.plan])]
    ELSE [all EXCEPT !.errors = Append(@, r.error)]

(* plan's forEach body: the plan, with the utterance when it is empty, or
   the error caught. *)
planAdd(all, interp, r) ==
    IF r.error = ""
    THEN [all EXCEPT !.plans =
            Append(@, [parse |-> interp.parse, interpretation |-> interp.interpretation,
                       plan |-> IF Len(r.plan) = 0 THEN <<AlreadyTrue>> ELSE r.plan])]
    ELSE [all EXCEPT !.errors = Append(@, r.error)]

(* plan: the interpretations planInterpretation finds a plan for, each with
   its plan, in their order; the first error when there is none. *)
RECURSIVE planCollect(_, _, _)
planCollect(interps, n, currentState) ==
    IF n = 0 THEN {[plans |-> <<>>, errors |-> <<>>]}
    ELSE UNION {{planAdd(all, interps[n], r) :
                    r \in planInterpretation(interps[n].interpretation, currentState)} :
                all \in planCollect(interps, n - 1, currentState)}

plan(interps, currentState) ==
    {IF Len(all.plans) > 0 THEN [error |-> "", plans |-> all.plans]
     ELSE [error |-> all.errors[1], plans |-> <<>>] :
        all \in planCollect(interps, Len(interps), currentState)}

-----------------------------------------------------------------------------
(* Worlds *)

Perms(S) ==
    {s \in [1..Cardinality(S) -> S] : \A i, j \in 1..Cardinality(S) : i # j => s[i] # s[j]}

(* Every column over some of the ids S, bottom to top, no id twice. *)
ColumnsOver(S) == UNION {Perms(T) : T \in SUBSET S}

InStacks(cols) == UNION {Range(cols[i]) : i \in 1..Len(cols)}

(* The states (arm, holding, columns) of a world of n columns in which each
   id of S is at exactly one place: one position of one column, or held. *)
WorldStates(S, n) ==
    {w \in [arm : 0..n - 1, holding : S \cup {Null}, cols : [1..n -> ColumnsOver(S)]] :
        /\ \A i, j \in 1..n : i # j => Range(w.cols[i]) \cap Range(w.cols[j]) = {}
        /\ InStacks(w.cols) = S \ {w.holding}}

(* Each object rests on the floor or on an object the laws let it rest on. *)
PhysicalLaws(cols, objDefs) ==
    \A i \in 1..Len(cols) : \A j \in 1..Len(cols[i]) :
        LET below == IF j = 1 THEN Floor ELSE cols[i][j - 1]
        IN  \/ isValidGoal("ontop", objDefs, cols[i][j], below)
            \/ isValidGoal("inside", objDefs, cols[i][j], below)

(* The world w with the objects objDefs: its columns are the first objects
   of the heap, and the start node of a search shares them with the world. *)
SetWorld(w, objDefs) ==
    /\ objects = objDefs
    /\ heap = w.cols
    /\ world = [arm |-> w.arm, holding |-> w.holding, stacks |-> Refs(Len(w.cols))]

startNode(state) == NodeState(state.arm, state.holding, state.stacks, Null)

-----------------------------------------------------------------------------
(* The StateGraph followed edge by edge from the start node of a world *)

GraphIds == {"a", "b"}

GraphObjects == [GraphIds -> {ObjectDefinition(f, s, "red") : f \in Forms, s \in Sizes}]

GraphInit ==
    /\ \E n \in 1..MaxColumns : \E objDefs \in GraphObjects : \E w \in WorldStates(GraphIds, n) :
          SetWorld(w, objDefs)
    /\ current = startNode(world)
    /\ steps = 0
    /\ parses = <<>>
    /\ interpretations = [error |-> "", interpretations |-> <<>>]
    /\ plans = [error |-> "", plans |-> <<>>]
    /\ otherNode = current
    /\ result = 0
    /\ call = NoCall
    /\ runs = <<>>
    /\ pc = "search"

(* The search expands current and goes on from the successor reached by cmd. *)
Follow(cmd) ==
    /\ pc = "search"
    /\ steps < MaxSteps
    /\ LET out == outgoingEdges(current, heap, objects)
       IN  \E k \in 1..Len(out.edges) :
              /\ out.edges[k].to.command = cmd
              /\ current' = out.edges[k].to
              /\ heap' = out.heap
    /\ steps' = steps + 1
    /\ UNCHANGED <<objects, world, parses, interpretations, plans, otherNode, result, pc, call, runs>>

Pick == Follow("p")
Right == Follow("r")
Left == Follow("l")
Drop == Follow("d")

GraphNext == Pick \/ Right \/ Left \/ Drop

SpecGraph == GraphInit /\ [][GraphNext]_vars


-----------------------------------------------------------------------------
(* An utterance interpreted and planned in a world *)

PlanObjects ==
    [a |-> ObjectDefinition("ball", "small", "white"),
     b |-> ObjectDefinition("box", "large", "red"),
     c |-> ObjectDefinition("brick", "large", "green")]

PlanWorlds ==
    UNION {{w \in WorldStates(DOMAIN PlanObjects, n) : PhysicalLaws(w.cols, PlanObjects)} :
           n \in 1..MaxColumns}

Object(f, s, c) == [form |-> f, size |-> s, color |-> c]
Entity(obj) == [object |-> obj]
Location(rel, obj) == [relation |-> rel, entity |-> Entity(obj)]
Relative(obj, rel, other) == [object |-> obj, location |-> Location(rel, other)]

Take(obj) == [command |-> "take", entity |-> Entity(obj)]
Move(obj, rel, other) == [command |-> "move", entity |-> Entity(obj), location |-> Location(rel, other)]
Put(rel, other) == [command |-> "put", location |-> Location(rel, other)]

AnyObject == Object("anyform", Null, Null)
TheBall == Object("ball", Null, "white")
TheBox == Object("box", Null, "red")
TheBrick == Object("brick", "large", Null)
TheFloor == Object("floor", Null, Null)

Commands ==
    {Take(AnyObject), Take(TheBox), Take(TheFloor),
     Take(Relative(AnyObject, "inside", TheBox)),
     Take(Relative(AnyObject, "beside", TheBrick)),
     Take(Relative(TheFloor, "under", TheBox)),
     Move(TheBall, "inside", TheBox), Move(AnyObject, "ontop", TheFloor),
     Move(TheBox, "ontop", TheBrick), Move(TheBrick, "beside", TheBox),
     Move(TheBrick, "beside", TheBall),
     Move(TheBall, "leftof", AnyObject), Move(AnyObject, "above", TheBrick),
     Move(TheBrick, "under", AnyObject), Move(TheBall, "rightof", TheFloor),
     Move(TheFloor, "ontop", TheBrick), Move(TheBall, "ontop", TheBall),
     Take(Relative(AnyObject, "beside", TheFloor)),
     Move(Relative(TheBall, "beside", TheFloor), "ontop", TheFloor),
     Put("inside", TheBox), Put("ontop", TheFloor), Put("beside", AnyObject),
     Put("ontop", AnyObject)}

(* The parser's results for an utterance: one parse, or the two parses of
   an ambiguous one. *)
Utterances ==
    {<<[parse |-> c]>> : c \in Commands}
    \cup {<<[parse |-> Take(TheFloor)], [parse |-> Take(TheBox)]>>,
          <<[parse |-> Take(TheBox)], [parse |-> Take(TheFloor)]>>,
          <<[parse |-> Take(Relative(TheFloor, "under", TheBox))], [parse |-> Take(TheFloor)]>>,
          <<[parse |-> Move(TheBrick, "beside", TheBox)], [parse |-> Take(TheBall)]>>,
          <<[parse |-> Take(TheBall)], [parse |-> Move(TheBrick, "beside", TheBox)]>>,
          <<[parse |-> Move(TheBrick, "beside", TheBox)],
            [parse |-> Move(TheBrick, "beside", TheBall)]>>,
          <<[parse |-> Move(TheBall, "inside", TheBox)],
            [parse |-> Move(Relative(TheBall, "inside", TheBox), "ontop", TheFloor)]>>}

(* The heap after a search that returned the path of the given action codes:
   each node of the path but the last was expanded, and each expansion
   allocated the columns of its successors. *)
RECURSIVE searchHeap(_, _, _, _)
searchStep(out, codes, objDefs) ==
    LET k == CHOOSE k \in 1..Len(out.edges) : out.edges[k].to.command = Head(codes)
    IN  searchHeap(out.edges[k].to, out.heap, Tail(codes), objDefs)

searchHeap(n, h, codes, objDefs) ==
    IF codes = <<>> THEN h
    ELSE searchStep(outgoingEdges(n, h, objDefs), codes, objDefs)

isCode(s) == s \in {"p", "d", "l", "r"}

(* The heap after plan returned the first k of the results all: one search
   after the other from a start node that shares the world's columns. *)
RECURSIVE planHeap(_, _, _, _, _)
planHeap(all, k, currentState, h, objDefs) ==
    IF k = 0 THEN h
    ELSE searchHeap(startNode(currentState), planHeap(all, k - 1, currentState, h, objDefs),
                    SelectSeq(all[k].plan, isCode), objDefs)

Init ==
    /\ \E w \in PlanWorlds : SetWorld(w, PlanObjects)
    /\ current = startNode(world)
    /\ steps = 0
    /\ parses \in Utterances
    /\ interpretations = [error |-> "", interpretations |-> <<>>]
    /\ plans = [error |-> "", plans |-> <<>>]
    /\ otherNode = current
    /\ result = 0
    /\ call = NoCall
    /\ runs = <<>>
    /\ pc = "interpret"

Interpret ==
    /\ pc = "interpret"
    /\ LET r == interpret(parses, WorldState(world, heap, objects))
       IN  /\ interpretations' = r
           /\ pc' = IF r.error = "" THEN "plan" ELSE "failed"
    /\ UNCHANGED <<objects, heap, world, current, steps, parses, plans, otherNode, result, call, runs>>

Plan ==
    /\ pc = "plan"
    /\ \E r \in plan(interpretations.interpretations, WorldState(world, heap, objects)) :
          /\ plans' = r
          /\ heap' = planHeap(r.plans, Len(r.plans), world, heap, objects)
          /\ pc' = IF r.error = "" THEN "done" ELSE "failed"
    /\ UNCHANGED <<objects, world, current, steps, parses, interpretations, otherNode, result, call, runs>>

Next == Interpret \/ Plan

Spec == Init /\ [][Next]_vars


-----------------------------------------------------------------------------
(* compareNodes on two nodes of one world *)

CompareIds == {"a", "b", "c"}

NodeCommands == {Null, "p", "d", "l", "r"}

CompareInit ==
    /\ \E w1, w2 \in WorldStates(CompareIds, MaxColumns) : \E c1, c2 \in NodeCommands :
          /\ heap = w1.cols \o w2.cols
          /\ world = [arm |-> w1.arm, holding |-> w1.holding, stacks |-> Refs(MaxColumns)]
          /\ current = NodeState(w1.arm, w1.holding, Refs(MaxColumns), c1)
          /\ otherNode = NodeState(w2.arm, w2.holding,
                               [i \in 1..MaxColumns |-> MaxColumns + i], c2)
    /\ objects = PlanObjects
    /\ steps = 0
    /\ parses = <<>>
    /\ interpretations = [error |-> "", interpretations |-> <<>>]
    /\ plans = [error |-> "", plans |-> <<>>]
    /\ result = 0
    /\ call = NoCall
    /\ runs = <<>>
    /\ pc = "compare"

Compare ==
    /\ pc = "compare"
    /\ result' = compareNodes(View(current, heap), View(otherNode, heap))
    /\ pc' = "compared"
    /\ UNCHANGED <<objects, heap, world, current, steps, parses, interpretations, plans, otherNode, call, runs>>

CompareNext == Compare

SpecCompare == CompareInit /\ [][CompareNext]_vars

-----------------------------------------------------------------------------
(* interpretCommand as src/Interpreter.ts has it, run twice on one command *)

(* The objects the command refers to: the entity's and the location's, each
   with the object of its relative clause. *)
parserObjs(cmd) ==
    LET count(entity) == IF hasObject(entity.object) THEN 2 ELSE 1
    IN  (IF "entity" \in DOMAIN cmd THEN count(cmd.entity) ELSE 0)
        + (IF "location" \in DOMAIN cmd THEN count(cmd.location.entity) ELSE 0)

(* The ids in the stacks whose definition has the form, color and size of
   cmd.entity.object; an object with a relative clause has no form. *)
scopeObjs(cmd, state) ==
    LET kept(objId) == matches(cmd.entity.object, state.objects[objId])
    IN  IF hasObject(cmd.entity.object) THEN <<>>
        ELSE SelectSeq(Flatten(state.stacks), kept)

(* cmd.entity.object read of a command without entity, or scopeObjs[i].form
   read beyond the end of scopeObjs. *)
interpretCommandTemplateThrows(cmd, state) ==
    \/ "entity" \notin DOMAIN cmd
    \/ parserObjs(cmd) > Len(scopeObjs(cmd, state))

(* What a run can return: a and b are drawn with Math.random from the ids in
   the stacks. *)
interpretCommandTemplate(cmd, state) ==
    IF interpretCommandTemplateThrows(cmd, state)
    THEN {[error |-> TypeError, interpretation |-> <<>>]}
    ELSE {[error |-> "",
           interpretation |-> <<<<Literal("ontop", <<a, Floor>>), Literal("holding", <<b>>)>>>>] :
             a, b \in Range(Flatten(state.stacks))}

RunsInit ==
    /\ \E w \in PlanWorlds : SetWorld(w, PlanObjects)
    /\ current = startNode(world)
    /\ steps = 0
    /\ \E c \in Commands : parses = <<[parse |-> c]>>
    /\ interpretations = [error |-> "", interpretations |-> <<>>]
    /\ plans = [error |-> "", plans |-> <<>>]
    /\ otherNode = current
    /\ result = 0
    /\ call = NoCall
    /\ runs = <<>>
    /\ pc = "first"

(* One run of interpretCommand on the command, in the world as it is. *)
Run(at, next) ==
    /\ pc = at
    /\ \E r \in interpretCommandTemplate(parses[1].parse, WorldState(world, heap, objects)) :
          runs' = Append(runs, r)
    /\ pc' = next
    /\ UNCHANGED <<objects, heap, world, current, steps, parses, interpretations, plans,
                   otherNode, result, call>>

FirstRun == Run("first", "second")
SecondRun == Run("second", "ran")

RunsNext == FirstRun \/ SecondRun

SpecRuns == RunsInit /\ [][RunsNext]_vars

-----------------------------------------------------------------------------
(* isValidGoal called on two ids of a world *)

LawsInit ==
    /\ objects \in GraphObjects
    /\ heap = <<>>
    /\ world = [arm |-> 0, holding |-> Null, stacks |-> <<>>]
    /\ current = startNode(world)
    /\ steps = 0
    /\ parses = <<>>
    /\ interpretations = [error |-> "", interpretations |-> <<>>]
    /\ plans = [error |-> "", plans |-> <<>>]
    /\ otherNode = current
    /\ result = 0
    /\ \E relation \in Relations : \E aObj, bObj \in GraphIds \cup {Floor} :
          call = [relation |-> relation, aObj |-> aObj, bObj |-> bObj, returns |-> Null]
    /\ runs = <<>>
    /\ pc = "valid"

(* The call returns true or false; no property of a missing definition is
   read when both ids are the floor or ids of state.objects. *)
ValidGoal ==
    /\ pc = "valid"
    /\ call' = [call EXCEPT !.returns =
                  IF isValidGoalThrows(call.relation, objects, call.aObj, call.bObj) THEN TypeError
                  ELSE IF isValidGoal(call.relation, objects, call.aObj, call.bObj) THEN "true"
                  ELSE "false"]
    /\ pc' = "returned"
    /\ UNCHANGED <<objects, heap, world, current, steps, parses, interpretations, plans,
                   otherNode, result, runs>>

LawsNext == ValidGoal

SpecLaws == LawsInit /\ [][LawsNext]_vars

-----------------------------------------------------------------------------
(* Entities resolved in a world of three balls, with or without a box *)

ResolveObjects ==
    [r |-> ObjectDefinition("ball", "small", "red"),
     g |-> ObjectDefinition("ball", "small", "green"),
     b |-> ObjectDefinition("ball", "small", "blue"),
     k |-> ObjectDefinition("box", "large", "yellow")]

Balls == {"r", "g", "b"}

ABall == Object("ball", Null, Null)
TheGreenBall == Object("ball", Null, "green")
TheBlueBall == Object("ball", Null, "blue")
TheYellowBox == Object("box", Null, "yellow")

ResolveCommands ==
    {Take(Relative(ABall, "beside", TheGreenBall)), Take(ABall), Take(AnyObject),
     Take(TheBlueBall), Take(TheYellowBox), Take(TheFloor),
     Take(Relative(ABall, "leftof", TheGreenBall)),
     Take(Relative(AnyObject, "rightof", ABall)),
     Take(Relative(ABall, "inside", TheYellowBox)),
     Take(Relative(AnyObject, "ontop", TheFloor)),
     Move(ABall, "leftof", ABall), Move(AnyObject, "inside", AnyObject),
     Move(ABall, "ontop", TheFloor), Put("rightof", ABall)}

(* The lawful worlds of one column for each ball, over the balls or over
   the balls and the box *)
ResolveInit ==
    /\ \E S \in {Balls, DOMAIN ResolveObjects} :
          \E w \in WorldStates(S, Cardinality(Balls)) :
             /\ PhysicalLaws(w.cols, ResolveObjects)
             /\ SetWorld(w, [i \in S |-> ResolveObjects[i]])
    /\ current = startNode(world)
    /\ steps = 0
    /\ \E c \in ResolveCommands : parses = <<[parse |-> c]>>
    /\ interpretations = [error |-> "", interpretations |-> <<>>]
    /\ plans = [error |-> "", plans |-> <<>>]
    /\ otherNode = current
    /\ result = 0
    /\ call = NoCall
    /\ runs = <<>>
    /\ pc = "interpret"

ResolveNext == Interpret

SpecResolve == ResolveInit /\ [][ResolveNext]_vars

-----------------------------------------------------------------------------
(* isOnTop called once, on a list of target ids, a column index and a stack
   index, in a world that obeys the physical laws.  The list is ["floor"],
   as getValidObjectIds returns for the floor, or ids of objects in the
   stacks; the column index is one getColumnIndex returns and the stack
   index one less than getStackIndex returns. *)

OnTopTargets(S) ==
    {<<Floor>>} \cup UNION {Perms(T) : T \in (SUBSET S) \ {{}}}

OnTopInit ==
    /\ \E w \in WorldStates(DOMAIN PlanObjects, MaxColumns) :
          /\ PhysicalLaws(w.cols, PlanObjects)
          /\ SetWorld(w, PlanObjects)
          /\ \E objIds \in OnTopTargets(InStacks(w.cols)) :
             \E i \in NullIdx..MaxColumns - 1 :
             \E j \in NullIdx - 1..Cardinality(DOMAIN PlanObjects) - 1 :
                call = [relation |-> "ontop", objIds |-> objIds, i |-> i, j |-> j,
                        returns |-> Null]
    /\ current = startNode(world)
    /\ steps = 0
    /\ parses = <<>>
    /\ interpretations = [error |-> "", interpretations |-> <<>>]
    /\ plans = [error |-> "", plans |-> <<>>]
    /\ otherNode = current
    /\ result = 0
    /\ runs = <<>>
    /\ pc = "ontop"

IsOnTop ==
    /\ pc = "ontop"
    /\ call' = [call EXCEPT !.returns =
                  IF isOnTop(call.objIds, call.i, call.j,
                             WorldState(world, heap, objects).stacks, objects)
                  THEN "true" ELSE "false"]
    /\ pc' = "ontopReturned"
    /\ UNCHANGED <<objects, heap, world, current, steps, parses, interpretations, plans,
                   otherNode, result, runs>>

OnTopNext == IsOnTop

SpecOnTop == OnTopInit /\ [][OnTopNext]_vars

-----------------------------------------------------------------------------
(* isBeside called once, on a list of target ids and a column index of the
   world, in a world that obeys the physical laws. *)

BesideInit ==
    /\ \E w \in WorldStates(DOMAIN PlanObjects, MaxColumns) :
          /\ PhysicalLaws(w.cols, PlanObjects)
          /\ SetWorld(w, PlanObjects)
          /\ \E objIds \in OnTopTargets(InStacks(w.cols)) :
             \E i \in 0..MaxColumns - 1 :
                call = [relation |-> "beside", objIds |-> objIds, i |-> i, returns |-> Null]
    /\ current = startNode(world)
    /\ steps = 0
    /\ parses = <<>>
    /\ interpretations = [error |-> "", interpretations |-> <<>>]
    /\ plans = [error |-> "", plans |-> <<>>]
    /\ otherNode = current
    /\ result = 0
    /\ runs = <<>>
    /\ pc = "beside"

(* The call returns true or false, or throws the TypeError of reading the
   length of the column past the last one. *)
IsBeside ==
    /\ pc = "beside"
    /\ call' = [call EXCEPT !.returns =
                  IF isBesideThrows(call.objIds, call.i,
                                    WorldState(world, heap, objects).stacks) THEN TypeError
                  ELSE IF isBeside(call.objIds, call.i,
                                   WorldState(world, heap, objects).stacks) THEN "true"
                  ELSE "false"]
    /\ pc' = "besideReturned"
    /\ UNCHANGED <<objects, heap, world, current, steps, parses, interpretations, plans,
                   otherNode, result, runs>>

BesideNext == IsBeside

SpecBeside == BesideInit /\ [][BesideNext]_vars

-----------------------------------------------------------------------------
(* isGoal called once, on the start node of a world that obeys the physical
   laws and a formula of one or two conjunctions of one or two literals. *)

GoalIds == DOMAIN PlanObjects

GoalLiterals ==
    {Literal("holding", <<x>>) : x \in GoalIds}
        \cup {Literal(r, <<x, y>>) : r \in Relations, x \in GoalIds,
                                      y \in (GoalIds \cup {Floor})} 

OtherLiterals ==
    {Literal("holding", <<"c">>), Literal("beside", <<"a", "c">>),
     Literal("ontop", <<"c", Floor>>), Literal("inside", <<"a", "b">>),
     Literal("leftof", <<"b", "c">>), Literal("above", <<"a", "c">>)}

GoalFormulas ==
    {<<<<l>>>> : l \in GoalLiterals}
        \cup {<<<<l>>, <<m>>>> : l \in GoalLiterals, m \in OtherLiterals}
        \cup {<<<<l, m>>>> : l \in GoalLiterals, m \in OtherLiterals}

GoalInit ==
    /\ \E w \in WorldStates(GoalIds, MaxColumns) :
          /\ PhysicalLaws(w.cols, PlanObjects)
          /\ SetWorld(w, PlanObjects)
    /\ \E interpretation \in GoalFormulas :
          call = [relation |-> "isGoal", interpretation |-> interpretation, returns |-> Null]
    /\ current = startNode(world)
    /\ steps = 0
    /\ parses = <<>>
    /\ interpretations = [error |-> "", interpretations |-> <<>>]
    /\ plans = [error |-> "", plans |-> <<>>]
    /\ otherNode = current
    /\ result = 0
    /\ runs = <<>>
    /\ pc = "isGoal"

(* The call returns true or false, or throws what isLiteralGoal throws. *)
IsGoal ==
    /\ pc = "isGoal"
    /\ call' = [call EXCEPT !.returns =
                  IF isGoalThrows(View(current, heap), call.interpretation, objects)
                  THEN TypeError
                  ELSE IF isGoal(View(current, heap), call.interpretation, objects)
                  THEN "true" ELSE "false"]
    /\ pc' = "isGoalReturned"
    /\ UNCHANGED <<objects, heap, world, current, steps, parses, interpretations, plans,
                   otherNode, result, runs>>

GoalNext == IsGoal

SpecGoal == GoalInit /\ [][GoalNext]_vars

-----------------------------------------------------------------------------
(* The StateGraph followed edge by edge from the start node of a world of
   three objects that obeys the physical laws *)

StackObjects ==
    [a |-> ObjectDefinition("box", "small", "blue"),
     b |-> ObjectDefinition("plank", "large", "yellow"),
     c |-> ObjectDefinition("pyramid", "small", "red")]

LawfulInit ==
    /\ \E objDefs \in {PlanObjects, StackObjects} :
       \E w \in WorldStates(DOMAIN objDefs, MaxColumns) :
          /\ PhysicalLaws(w.cols, objDefs)
          /\ SetWorld(w, objDefs)
    /\ current = startNode(world)
    /\ steps = 0
    /\ parses = <<>>
    /\ interpretations = [error |-> "", interpretations |-> <<>>]
    /\ plans = [error |-> "", plans |-> <<>>]
    /\ otherNode = current
    /\ result = 0
    /\ call = NoCall
    /\ runs = <<>>
    /\ pc = "search"

LawfulNext == Pick \/ Right \/ Left \/ Drop

SpecLawful == LawfulInit /\ [][LawfulNext]_vars





-----------------------------------------------------------------------------
(* Properties *)

ActionCodes == {"p", "d", "l", "r"}

IsActionCode(s) == s \in ActionCodes

(* The action codes of a plan, in order, without the utterances *)
ActionsOf(p) == SelectSeq(p, IsActionCode)

(* The start node of a search in the world, as read *)
StartView == View(startNode(world), heap)

(* The nodes that performing the codes from v ends in: none when some code
   is not the command of an outgoing edge of the node it is performed on. *)
RECURSIVE Perform(_, _, _)
Perform(v, codes, objDefs) ==
    IF codes = <<>> THEN {v}
    ELSE UNION {Perform(s, Tail(codes), objDefs) :
                   s \in {s \in Range(Successors(v, objDefs)) : s.command = Head(codes)}}

Norm(v) == [v EXCEPT !.command = Null]

NoDistance == Infinity

(* The least number of edges from a node of S, k edges from the start, to a
   node isGoal accepts; NoDistance when there is none. *)
RECURSIVE DistanceFrom(_, _, _, _, _), DistanceNext(_, _, _, _, _)
DistanceFrom(S, seen, k, interpretation, objDefs) ==
    IF \E n \in S : isGoal(n, interpretation, objDefs) THEN k
    ELSE IF S = {} THEN NoDistance
    ELSE DistanceNext(UNION {{Norm(s) : s \in Range(Successors(n, objDefs))} : n \in S} \ seen,
                      seen, k, interpretation, objDefs)

DistanceNext(S, seen, k, interpretation, objDefs) ==
    DistanceFrom(S, seen \cup S, k + 1, interpretation, objDefs)

Distance(v, interpretation, objDefs) ==
    DistanceFrom({Norm(v)}, {Norm(v)}, 0, interpretation, objDefs)

Planned == IF pc = "done" THEN plans.plans ELSE <<>>

Interpreted == interpretations.interpretations

(* C1: performing the action codes of a returned plan in order from the
   start state, each as the outgoing edge of that command, is possible at
   every code and ends in a node on which isGoal is true. *)
C1_PlanReachesGoal ==
    \A k \in 1..Len(Planned) :
        /\ Perform(StartView, ActionsOf(Planned[k].plan), objects) # {}
        /\ \A n \in Perform(StartView, ActionsOf(Planned[k].plan), objects) :
              isGoal(n, Planned[k].interpretation, objects)

C1_Witness ==
    \E k \in 1..Len(Planned) :
        /\ Len(ActionsOf(Planned[k].plan)) >= 4
        /\ "d" \in Range(Planned[k].plan)
        /\ "l" \in Range(Planned[k].plan)

(* C2: when isGoal holds on the start state for an interpretation, plan
   returns for it the plan whose only element is "That is already true!". *)
C2_AlreadyTrue ==
    pc \in {"done", "failed"} =>
        \A j \in 1..Len(Interpreted) :
            isGoal(StartView, Interpreted[j].interpretation, objects) =>
                \E k \in 1..Len(Planned) :
                    /\ Planned[k].parse = Interpreted[j].parse
                    /\ Planned[k].interpretation = Interpreted[j].interpretation
                    /\ Planned[k].plan = <<AlreadyTrue>>

C2_Witness ==
    \E k \in 1..Len(Planned) :
        /\ isGoal(StartView, Planned[k].interpretation, objects)
        /\ Len(Planned[k].interpretation[1][1].args) = 2
        /\ Planned[k].plan = <<AlreadyTrue>>

BinaryLiterals ==
    UNION {Range(Literals(Interpreted[j].interpretation)) : j \in 1..Len(Interpreted)}

(* C3: every literal relation(a, b) of a formula interpretCommand returned
   satisfies isValidGoal(relation, a, b) in the world it was interpreted in,
   and has neither a = b nor a = "floor". *)
C3_LiteralsValid ==
    \A literal \in BinaryLiterals :
        Len(literal.args) = 2 =>
            /\ ~isValidGoalThrows(literal.relation, objects, literal.args[1], literal.args[2])
            /\ isValidGoal(literal.relation, objects, literal.args[1], literal.args[2])
            /\ literal.args[1] # literal.args[2]
            /\ literal.args[1] # Floor

C3_Witness ==
    /\ pc = "plan"
    /\ parses[1].parse.command = "put"
    /\ world.holding # Null
    /\ \E literal \in BinaryLiterals : literal.relation = "inside"

(* C4: in every node reached from a start state through successor edges, each
   object id is at no more than one stack position, and the held id is at
   none. *)
C4_IdsOnce ==
    LET ids == Flatten(View(current, heap).stacks)
    IN  /\ \A i, j \in 1..Len(ids) : ids[i] = ids[j] => i = j
        /\ \A i \in 1..Len(ids) : ids[i] # current.holding /\ ids[i] # Floor

C4_Witness ==
    /\ steps = MaxSteps
    /\ current.command = "p"
    /\ Len(Flatten(View(current, heap).stacks)) > 0

(* C5: from a start state that satisfies the physical laws, every node
   reached through successor edges has each object resting on the floor or
   on an object that isValidGoal accepts under it for ontop or for inside. *)
C5_PhysicalLaws ==
    PhysicalLaws(Columns(world.stacks, heap), objects)
        => PhysicalLaws(View(current, heap).stacks, objects)

C5_Witness ==
    /\ PhysicalLaws(Columns(world.stacks, heap), objects)
    /\ steps = MaxSteps
    /\ current.command = "d"
    /\ \E i \in 1..Len(current.stacks) : Len(heap[current.stacks[i]]) = 2

(* C6: for the start node and every formula the interpreter returned from
   which a goal node can be reached, heuristics is no more than the least
   number of actions to a node on which isGoal is true. *)
C6_Admissible ==
    pc = "plan" =>
        \A j \in 1..Len(Interpreted) :
            (/\ Distance(StartView, Interpreted[j].interpretation, objects) # NoDistance
             /\ ~heuristicsThrows(StartView, Interpreted[j].interpretation, objects))
            => heuristics(StartView, Interpreted[j].interpretation, objects)
                  <= Distance(StartView, Interpreted[j].interpretation, objects)

(* The codes of |arm - column| moves from arm towards column, then a pick *)
MovesThenPick(arm, column) ==
    [i \in 1..Abs(arm - column) + 1 |->
        IF i = Abs(arm - column) + 1 THEN "p" ELSE IF column > arm THEN "r" ELSE "l"]

OnTop(objId, stacks) ==
    \E i \in 1..Len(stacks) : Len(stacks[i]) > 0 /\ Last(stacks[i]) = objId

(* C7: a returned plan has as many action codes as the shortest sequence of
   enabled actions from the start state to a node on which isGoal is true;
   for the goal holding(x), nothing held and x on top of its column, the
   codes are the moves from the arm to x's column and then one p. *)
C7_PlanOptimal ==
    \A k \in 1..Len(Planned) :
        /\ Len(ActionsOf(Planned[k].plan))
              = Distance(StartView, Planned[k].interpretation, objects)
        /\ (/\ Len(Planned[k].interpretation) = 1
            /\ Planned[k].interpretation[1][1].relation = "holding"
            /\ world.holding = Null
            /\ OnTop(Planned[k].interpretation[1][1].args[1], StartView.stacks))
           => ActionsOf(Planned[k].plan)
                 = MovesThenPick(world.arm,
                                 getColumnIndex(Planned[k].interpretation[1][1].args[1],
                                                StartView.stacks))

C7_Witness ==
    \E k \in 1..Len(Planned) :
        /\ Len(Planned[k].interpretation) = 1
        /\ Planned[k].interpretation[1][1].relation = "holding"
        /\ world.holding = Null
        /\ Len(ActionsOf(Planned[k].plan)) >= 5

(* C8: two nodes whose arm, holding and stacks are equal compare equal
   under compareNodes, whatever their commands. *)
C8_CommandIgnored ==
    (pc = "compared" /\ Key(View(current, heap)) = Key(View(otherNode, heap))) => result = 0

(* C9: two nodes that differ in arm, in holding or in a column do not
   compare equal under compareNodes. *)
C9_IdInjective ==
    (pc = "compared" /\ Key(View(current, heap)) # Key(View(otherNode, heap))) => result # 0


(* Every edge of the list leaves the node from, and no column of a successor
   is one of the first n columns of the heap. *)
EdgesLeave(edges, from, n) ==
    \A k \in 1..Len(edges) :
        /\ edges[k].from = from
        /\ Range(edges[k].to.stacks) \cap (1..n) = {}

(* C10: outgoingEdges leaves every column that exists when it is called as
   it is, so the node it is given and every node made before keep their
   columns, and the columns of each successor are new ones: none is a column
   of the parent. *)
C10_ParentUnchanged ==
    [][/\ Len(heap') >= Len(heap)
       /\ \A ref \in 1..Len(heap) : heap'[ref] = heap[ref]
       /\ EdgesLeave(outgoingEdges(current, heap, objects).edges, current, Len(heap))]_vars

C10_Witness ==
    /\ steps = MaxSteps
    /\ current.command = "d"
    /\ Columns(current.stacks, heap) # Columns(world.stacks, heap)
    /\ Range(current.stacks) \cap Range(world.stacks) = {}

(* C11: a call of interpret or plan, whether it returns or fails, leaves the
   world's arm, holding and objects as they were, and every column of the
   world holds after the call what it held before. *)
C11_WorldUnchanged ==
    [][/\ world' = world
       /\ objects' = objects
       /\ Columns(world.stacks, heap') = Columns(world.stacks, heap)]_vars

(* plan returned a plan that picks an object up, and the search allocated
   columns of its own. *)
C11_Witness ==
    /\ pc = "done"
    /\ Len(heap) > Len(world.stacks)
    /\ \E k \in 1..Len(Planned) : "p" \in Range(Planned[k].plan)

(* C12: two runs of interpretCommand on the same command in the same world
   return the same DNF formula, or fail alike. *)
C12_Deterministic ==
    pc = "ran" => runs[1] = runs[2]

(* The world as interpret and plan were given it *)
CurrentState == WorldState(world, heap, objects)

(* What interpretCommand makes of the k-th parse *)
Formula(k) == interpretCommand(parses[k].parse, CurrentState)

(* What planInterpretation can make of the j-th interpretation *)
Outcomes(j) == planInterpretation(Interpreted[j].interpretation, CurrentState)

(* The j-th smallest member of the set S of indexes *)
Nth(S, j) == CHOOSE k \in S : Cardinality({i \in S : i < k}) = j - 1

(* g maps the positions of a list of length n to those of the list it was
   taken from, of length m, keeping the order. *)
Increasing(g, n, m) ==
    /\ \A i \in 1..n : g[i] \in 1..m
    /\ \A i, j \in 1..n : i < j => g[i] < g[j]

InterpretReturnsSuccesses ==
    LET S == {k \in 1..Len(parses) : Formula(k).error = ""}
    IN  IF S # {}
        THEN /\ interpretations.error = ""
             /\ Interpreted = [j \in 1..Cardinality(S) |->
                                 [parse |-> parses[Nth(S, j)].parse,
                                  interpretation |-> Formula(Nth(S, j)).interpretation]]
        ELSE /\ interpretations.error = Formula(1).error
             /\ Interpreted = <<>>

PlanReturnsSuccesses ==
    IF pc = "done"
    THEN /\ plans.error = ""
         /\ Len(Planned) > 0
         /\ \E g \in [1..Len(Planned) -> 1..Len(Interpreted)] :
               /\ Increasing(g, Len(Planned), Len(Interpreted))
               /\ \A i \in 1..Len(Planned) :
                     /\ Planned[i].parse = Interpreted[g[i]].parse
                     /\ Planned[i].interpretation = Interpreted[g[i]].interpretation
                     /\ \E o \in Outcomes(g[i]) :
                           /\ o.error = ""
                           /\ ActionsOf(Planned[i].plan) = ActionsOf(o.plan)
               /\ \A j \in 1..Len(Interpreted) :
                     (\A i \in 1..Len(Planned) : g[i] # j)
                        => \E o \in Outcomes(j) : o.error # ""
    ELSE /\ plans.plans = <<>>
         /\ \A j \in 1..Len(Interpreted) : \E o \in Outcomes(j) : o.error # ""
         /\ \E o \in Outcomes(1) : o.error = plans.error

(* plan given one interpretation returns it with a plan, or fails. *)
PlanReturnsOne ==
    IF pc = "done"
    THEN /\ plans.error = ""
         /\ Len(Planned) = 1
         /\ Planned[1].parse = Interpreted[1].parse
         /\ Planned[1].interpretation = Interpreted[1].interpretation
         /\ Len(Planned[1].plan) > 0
    ELSE /\ plans.plans = <<>>
         /\ plans.error \in {NoPath, TypeError}

(* C13: interpret and plan each return the items whose processing succeeded,
   in the order they were given, when at least one succeeds, and fail with
   the error of the first item when none succeeds; an item that fails does
   not remove another item's result.  For plan, the items are compared with
   what planInterpretation can make of each interpretation when there are
   several, and a single interpretation comes back with its plan or fails. *)
C13_SuccessesInOrder ==
    /\ pc # "interpret" => InterpretReturnsSuccesses
    /\ (pc = "done" \/ (pc = "failed" /\ interpretations.error = "")) =>
          IF Len(Interpreted) = 1 THEN PlanReturnsOne ELSE PlanReturnsSuccesses

(* Of two interpretations the first could not be planned, and plan returned
   the plan of the second. *)
C13_Witness ==
    /\ pc = "done"
    /\ Len(Interpreted) = 2
    /\ Len(Planned) = 1
    /\ Planned[1].parse = Interpreted[2].parse

(* C14: a put command in a world where nothing is held makes interpretCommand
   fail, whatever the relation and the target, and no literal is emitted. *)
C14_PutNothingHeld ==
    (/\ pc # "interpret"
     /\ Len(parses) = 1
     /\ parses[1].parse.command = "put"
     /\ world.holding = Null)
        => (interpretations.error # "" /\ Interpreted = <<>>)

(* The ids an entity of the command resolves to, when it has one *)
Resolved(cmd, field) ==
    IF field \in DOMAIN cmd THEN getValidObjectIds(cmd[field].entity.object, CurrentState)
    ELSE [error |-> "", ids |-> <<>>]

(* Resolution of cmd succeeds, the physical laws can be asked about every
   pair, and there is no id to hold and no pair the laws accept. *)
EmitsNoLiteral(cmd) ==
    LET subjects == IF cmd.command = "put" THEN <<world.holding>>
                    ELSE IF "entity" \in DOMAIN cmd
                         THEN getValidObjectIds(cmd.entity.object, CurrentState).ids
                    ELSE <<>>
        targets == Resolved(cmd, "location").ids
    IN  /\ "entity" \in DOMAIN cmd => getValidObjectIds(cmd.entity.object, CurrentState).error = ""
        /\ Resolved(cmd, "location").error = ""
        /\ IF cmd.command = "take"
           THEN \A i \in 1..Len(subjects) : subjects[i] = Floor
           ELSE \A i \in 1..Len(subjects) : \A j \in 1..Len(targets) :
                   /\ ~isValidGoalThrows(cmd.location.relation, objects, subjects[i], targets[j])
                   /\ ~isValidGoal(cmd.location.relation, objects, subjects[i], targets[j])

(* C15: interpretCommand never returns an empty formula: every formula
   interpret collected has a conjunction, and a command for which no literal
   is emitted fails with NoInterpretation. *)
C15_NeverEmpty ==
    pc # "interpret" =>
        /\ \A k \in 1..Len(Interpreted) : Len(Interpreted[k].interpretation) > 0
        /\ (Len(parses) = 1 /\ EmitsNoLiteral(parses[1].parse))
              => (interpretations.error = NoInterpretation /\ Interpreted = <<>>)

(* The ball on top of the ball: the one pair is filtered and the command
   fails with NoInterpretation. *)
C15_Witness ==
    /\ pc = "failed"
    /\ parses = <<[parse |-> Move(TheBall, "ontop", TheBall)]>>
    /\ "a" \in InStacks(CurrentState.stacks)
    /\ interpretations.error = NoInterpretation

(* The definitions of the two ids of a call on distinct objects *)
Subject == objects[call.aObj]
Target == objects[call.bObj]

Is(objDef, size, form) == objDef.size = size /\ objDef.form = form

ReturnedOfObjects ==
    /\ pc = "returned"
    /\ call.aObj # Floor
    /\ call.bObj # Floor
    /\ call.aObj # call.bObj

(* C16: for an object a that is not the floor and each of the seven
   relations, isValidGoal(relation, a, "floor") is true exactly when the
   relation is ontop or above. *)
C16_FloorTarget ==
    (pc = "returned" /\ call.aObj # Floor /\ call.bObj = Floor)
        => (call.returns = "true" <=> call.relation \in {"ontop", "above"})

(* C17 as stated: for a large box a and a small brick b, isValidGoal of
   ontop and of inside with subject b and target a both return true. *)
C17_BrickOntopAndInsideBox ==
    (/\ ReturnedOfObjects
     /\ Is(Subject, "small", "brick")
     /\ Is(Target, "large", "box")
     /\ call.relation \in {"ontop", "inside"})
        => call.returns = "true"

(* C17: for a large box a and a small brick b, isValidGoal("ontop", b, a)
   returns false, the target being a box, and isValidGoal("inside", b, a)
   returns true. *)
C17_BrickInsideNotOntopBox ==
    (/\ ReturnedOfObjects
     /\ Is(Subject, "small", "brick")
     /\ Is(Target, "large", "box"))
        => /\ call.relation = "ontop" => call.returns = "false"
           /\ call.relation = "inside" => call.returns = "true"

(* isValidGoal("ontop", b, a) returned for a small brick b and a large box a *)
C17_Witness ==
    /\ ReturnedOfObjects
    /\ Is(Subject, "small", "brick")
    /\ Is(Target, "large", "box")
    /\ call.relation = "ontop"
    /\ call.returns = "false"

(* The cases listed for ontop and above *)
OntopListed ==
    \/ call.relation = "ontop" /\ Subject.form = "ball"
    \/ Target.form = "ball"
    \/ Subject.size = "large" /\ Target.size = "small"
    \/ Is(Subject, "small", "box") /\ (Is(Target, "small", "brick") \/ Is(Target, "small", "pyramid"))
    \/ Is(Subject, "large", "box") /\ Is(Target, "large", "pyramid")
    \/ call.relation = "ontop" /\ Target.form = "box"

(* C18: for distinct objects a and b, neither the floor, isValidGoal of
   ontop and of above returns false in the listed cases and true for every
   other combination of forms and sizes. *)
C18_OntopAbove ==
    (ReturnedOfObjects /\ call.relation \in {"ontop", "above"})
        => call.returns = (IF OntopListed THEN "false" ELSE "true")

(* above was asked for a large box and a large pyramid, which only that rule
   of the list forbids. *)
C18_Witness ==
    /\ ReturnedOfObjects
    /\ call.relation = "above"
    /\ Is(Subject, "large", "box")
    /\ Is(Target, "large", "pyramid")
    /\ call.returns = "false"

(* The cases listed for inside *)
InsideListed ==
    \/ Subject.size = "large" /\ Target.size = "small"
    \/ Target.form # "box"
    \/ Subject.form \in {"pyramid", "plank", "box"} /\ Subject.size = Target.size

(* C19: for distinct objects a and b, neither the floor, isValidGoal of
   inside returns false when a is large and b small, when b is not a box,
   and when a is a pyramid, plank or box of b's size, and true otherwise. *)
C19_Inside ==
    (ReturnedOfObjects /\ call.relation = "inside")
        => call.returns = (IF InsideListed THEN "false" ELSE "true")

(* inside was asked for a plank and a box of the same size, and refused. *)
C19_Witness ==
    /\ ReturnedOfObjects
    /\ call.relation = "inside"
    /\ Subject.form = "plank"
    /\ Target.form = "box"
    /\ Subject.size = Target.size
    /\ call.returns = "false"

(* The objects of the entities of a command *)
EntityObjects(cmd) ==
    (IF "entity" \in DOMAIN cmd THEN {cmd.entity.object} ELSE {})
    \cup (IF "location" \in DOMAIN cmd THEN {cmd.location.entity.object} ELSE {})

(* The object an entity describes is the floor, with or without a relative
   clause. *)
DescribesFloor(o) ==
    IF hasObject(o) THEN ~hasObject(o.object) /\ o.object.form = "floor"
    ELSE o.form = "floor"

(* C20: an entity whose described object is the floor resolves to the one id
   "floor" when it has no relative clause and fails with IllegalReference
   when it has one; so a command on the floor with a clause fails with that
   error, and the literals of a command to the floor have the floor as
   target. *)
C20_FloorEntity ==
    pc # "interpret" =>
        /\ \A k \in 1..Len(parses) : \A o \in EntityObjects(parses[k].parse) :
              DescribesFloor(o) =>
                  getValidObjectIds(o, CurrentState) =
                      (IF hasObject(o) THEN [error |-> IllegalReference, ids |-> <<>>]
                       ELSE [error |-> "", ids |-> <<Floor>>])
        /\ (/\ Len(parses) = 1
            /\ "entity" \in DOMAIN parses[1].parse
            /\ DescribesFloor(parses[1].parse.entity.object)
            /\ hasObject(parses[1].parse.entity.object))
              => interpretations.error = IllegalReference
        /\ \A k \in 1..Len(Interpreted) :
              (/\ "location" \in DOMAIN Interpreted[k].parse
               /\ DescribesFloor(Interpreted[k].parse.location.entity.object))
                 => \A c \in 1..Len(Interpreted[k].interpretation) :
                       Interpreted[k].interpretation[c][1].args[2] = Floor

(* take the floor under the box: the floor has a relative clause, and the
   command failed with IllegalReference. *)
C20_Witness ==
    /\ pc = "failed"
    /\ parses = <<[parse |-> Take(Relative(TheFloor, "under", TheBox))]>>
    /\ interpretations.error = IllegalReference

(* The entity of the command is an object beside the floor. *)
BesideFloor(cmd) ==
    /\ "entity" \in DOMAIN cmd
    /\ hasObject(cmd.entity.object)
    /\ cmd.entity.object.location.relation = "beside"
    /\ cmd.entity.object.location.entity.object = TheFloor

(* C21: a command whose entity is an object beside the floor fails in
   interpretation in every world, and the relative clause keeps no object. *)
C21_BesideFloorFails ==
    (pc # "interpret" /\ Len(parses) = 1 /\ BesideFloor(parses[1].parse)) =>
        /\ interpretations.error # ""
        /\ Interpreted = <<>>
        /\ getValidObjectIds(parses[1].parse.entity.object, CurrentState).ids = <<>>

(* take an object beside the floor, with objects in the stacks and none in
   the last column: every object is dropped by the clause and the command
   fails with NoInterpretation. *)
C21_Witness ==
    /\ pc = "failed"
    /\ parses = <<[parse |-> Take(Relative(AnyObject, "beside", TheFloor))]>>
    /\ Len(Flatten(CurrentState.stacks)) > 0
    /\ interpretations.error = NoInterpretation

(* The nodes reached by performing the action codes among the first i
   elements of the plan p from the start state *)
NodesAfter(p, i) == Perform(StartView, ActionsOf(SubSeq(p, 1, i)), objects)

(* The element i of p is the utterance of the pick or drop that follows it:
   what describeMove says of the node that action leads to. *)
IsUtteranceOf(p, i) ==
    /\ i < Len(p)
    /\ p[i + 1] \in {"p", "d"}
    /\ \E n \in NodesAfter(p, i + 1) :
          p[i] = describeMove(n, i + 1 = Len(p), p[i + 1], objects)

PlanShape(p) ==
    /\ NodesAfter(p, Len(p)) # {}
    /\ \A i \in 1..Len(p) :
          /\ p[i] \notin ActionCodes => IsUtteranceOf(p, i)
          /\ p[i] \in {"p", "d"} =>
                /\ i > 1
                /\ p[i - 1] \notin ActionCodes
                /\ i > 2 => p[i - 2] \in ActionCodes
          /\ p[i] \in {"l", "r"} => (i = 1 \/ p[i - 1] \in ActionCodes)

(* C22: in a plan built from a search path every element is an action code
   p, d, l, r or an utterance; each p and each d comes right after exactly
   one utterance, which describes it, no l or r comes right after an
   utterance, and the action codes in order are the commands of the nodes of
   a path of successive edges from the start node. *)
C22_PlanShape ==
    \A k \in 1..Len(Planned) :
        Planned[k].plan # <<AlreadyTrue>> => PlanShape(Planned[k].plan)

(* A plan that picks, moves the arm and drops *)
C22_Witness ==
    \E k \in 1..Len(Planned) :
        /\ {"p", "d"} \subseteq Range(Planned[k].plan)
        /\ {"l", "r"} \cap Range(Planned[k].plan) # {}

(* C23: every node reached from a start state whose arm is over a column,
   through any sequence of edges, has its arm over a column and as many
   columns as the start state. *)
C23_ArmInRange ==
    /\ 0 <= current.arm
    /\ current.arm < Len(current.stacks)
    /\ Len(current.stacks) = Len(world.stacks)

(* The arm was moved right to the last of several columns, or left to the
   first. *)
C23_Witness ==
    /\ Len(world.stacks) > 1
    /\ \/ current.command = "r" /\ current.arm = Len(current.stacks) - 1
       \/ current.command = "l" /\ current.arm = 0

(* The node the walk is at, as read, and the commands of its successors in
   the order of the list outgoingEdges returns *)
CurrentView == View(current, heap)

CommandsOf(edges) == [k \in 1..Len(edges) |-> edges[k].to.command]

EdgeCommands == CommandsOf(outgoingEdges(current, heap, objects).edges)

ArmColumn == CurrentView.stacks[CurrentView.arm + 1]

CanPick == CurrentView.holding = Null /\ ArmColumn # <<>>

CanRight == CurrentView.arm < Len(CurrentView.stacks) - 1

CanLeft == CurrentView.arm > 0

CanDrop ==
    /\ CurrentView.holding # Null
    /\ LET top == IF ArmColumn = <<>> THEN Floor ELSE ArmColumn[Len(ArmColumn)]
       IN  \/ isValidGoal("inside", objects, CurrentView.holding, top)
           \/ isValidGoal("ontop", objects, CurrentView.holding, top)

(* C24: the successor list of a node has a pick edge iff nothing is held and
   the arm's column is not empty, a right edge iff arm < numColumns - 1, a
   left edge iff arm > 0, and a drop edge iff something is held that the
   laws let rest inside or ontop of the top of the arm's column, or of the
   floor; the edges come in the order pick, right, left, drop. *)
C24_SuccessorList ==
    EdgeCommands = (IF CanPick THEN <<"p">> ELSE <<>>)
                   \o (IF CanRight THEN <<"r">> ELSE <<>>)
                   \o (IF CanLeft THEN <<"l">> ELSE <<>>)
                   \o (IF CanDrop THEN <<"d">> ELSE <<>>)

(* A node with the arm on the left of two columns holding an object it can
   drop: right, then drop. *)
C24_Witness ==
    /\ steps > 0
    /\ EdgeCommands = <<"r", "d">>

(* The columns of w are those of v but for the arm's column of v, which is
   col in w. *)
OnlyArmColumn(v, w, col) ==
    /\ Len(w.stacks) = Len(v.stacks)
    /\ \A i \in 1..Len(v.stacks) :
          w.stacks[i] = (IF i = v.arm + 1 THEN col ELSE v.stacks[i])

CostOne(edges) == \A k \in 1..Len(edges) : edges[k].cost = 1

(* What the edge from v to w does, by the command of w *)
EdgeEffect(v, w) ==
    LET col == v.stacks[v.arm + 1]
    IN  CASE w.command = "p" ->
               /\ col # <<>>
               /\ w.holding = col[Len(col)]
               /\ w.arm = v.arm
               /\ OnlyArmColumn(v, w, SubSeq(col, 1, Len(col) - 1))
          [] w.command = "d" ->
               /\ w.holding = Null
               /\ w.arm = v.arm
               /\ OnlyArmColumn(v, w, col \o <<v.holding>>)
          [] w.command = "r" ->
               w.arm = v.arm + 1 /\ w.holding = v.holding /\ w.stacks = v.stacks
          [] w.command = "l" ->
               w.arm = v.arm - 1 /\ w.holding = v.holding /\ w.stacks = v.stacks
          [] OTHER -> FALSE

(* C25: a pick successor holds the former top of the arm's column and that
   column is shorter by one; a drop successor holds nothing and the arm's
   column has the formerly held id on top; in both, arm and the other
   columns are as before; left and right change arm by one and leave holding
   and the columns; every edge has cost 1. *)
C25_EdgeEffects ==
    [][/\ EdgeEffect(View(current, heap), View(current', heap'))
       /\ CostOne(outgoingEdges(current, heap, objects).edges)]_vars

(* A drop followed a pick and a move of the arm. *)
C25_Witness ==
    /\ steps = 3
    /\ current.command = "d"
    /\ \E i \in 1..Len(CurrentView.stacks) : i # world.arm + 1 /\ i = current.arm + 1
    /\ world.holding = Null

(* The place of an id of the stacks: its column, then its height *)
ColumnOf(objId) == getColumnIndex(objId, CurrentState.stacks)
HeightOf(objId) == getStackIndex(objId, ColumnOf(objId), CurrentState.stacks)

(* Each id of the list is in the stacks, and comes before the ids of the
   columns to its right and before the ids above it in its column. *)
InScanOrder(ids) ==
    /\ \A n \in 1..Len(ids) : ids[n] \in InStacks(CurrentState.stacks)
    /\ \A m, n \in 1..Len(ids) :
          m < n => \/ ColumnOf(ids[m]) < ColumnOf(ids[n])
                   \/ /\ ColumnOf(ids[m]) = ColumnOf(ids[n])
                      /\ HeightOf(ids[m]) < HeightOf(ids[n])

(* The ids of the holding literals of a formula, in order *)
HeldIds(interpretation) == [c \in 1..Len(interpretation) |-> interpretation[c][1].args[1]]

ExampleStacks == <<<<"r">>, <<"g">>, <<"b">>>>

(* C26: the ids an entity resolves to are in the order of increasing column
   and, within a column, from bottom to top, with or without a relative
   clause, and so are the holding literals of a take; with stacks
   [[r],[g],[b]], take the ball beside the green ball gives holding(r), then
   holding(b), and no holding(g). *)
C26_ScanOrder ==
    pc # "interpret" =>
        /\ \A o \in EntityObjects(parses[1].parse) :
              (~DescribesFloor(o) /\ getValidObjectIds(o, CurrentState).error = "")
                 => InScanOrder(getValidObjectIds(o, CurrentState).ids)
        /\ (interpretations.error = "" /\ parses[1].parse.command = "take")
              => InScanOrder(HeldIds(Interpreted[1].interpretation))
        /\ (/\ CurrentState.stacks = ExampleStacks
            /\ parses[1].parse = Take(Relative(ABall, "beside", TheGreenBall)))
              => /\ interpretations.error = ""
                 /\ HeldIds(Interpreted[1].interpretation) = <<"r", "b">>

(* The example: take the ball beside the green ball in [[r],[g],[b]] *)
C26_Witness ==
    /\ pc = "plan"
    /\ CurrentState.stacks = ExampleStacks
    /\ parses[1].parse = Take(Relative(ABall, "beside", TheGreenBall))
    /\ Len(Interpreted[1].interpretation) > 1

(* The place of an id in a list without repetitions *)
IndexIn(ids, objId) == CHOOSE n \in 1..Len(ids) : ids[n] = objId

(* The formula interpret returned for the one parse, empty when it failed *)
TheFormula == IF interpretations.error = "" THEN Interpreted[1].interpretation ELSE <<>>

MoveFormula(cmd) ==
    LET subjects == getValidObjectIds(cmd.entity.object, CurrentState).ids
        targets == getValidObjectIds(cmd.location.entity.object, CurrentState).ids
        relation == cmd.location.relation
        a(c) == TheFormula[c][1].args[1]
        b(c) == TheFormula[c][1].args[2]
    IN  /\ \A c \in 1..Len(TheFormula) :
              /\ Len(TheFormula[c]) = 1
              /\ TheFormula[c][1].relation = relation
              /\ TheFormula[c][1].polarity
              /\ Len(TheFormula[c][1].args) = 2
              /\ a(c) \in Range(subjects)
              /\ b(c) \in Range(targets)
              /\ isValidGoal(relation, objects, a(c), b(c))
        /\ \A i \in 1..Len(subjects) : \A j \in 1..Len(targets) :
              isValidGoal(relation, objects, subjects[i], targets[j])
                 => Cardinality({c \in 1..Len(TheFormula) :
                                   a(c) = subjects[i] /\ b(c) = targets[j]}) = 1
        /\ \A c, d \in 1..Len(TheFormula) :
              c < d => \/ IndexIn(subjects, a(c)) < IndexIn(subjects, a(d))
                       \/ /\ a(c) = a(d)
                          /\ IndexIn(targets, b(c)) < IndexIn(targets, b(d))

(* C27: the formula of a move command is the sequence of the conjunctions of
   one literal relation(a, b) over the pairs of an id of the command entity
   and an id of the location entity that isValidGoal accepts, the ids of the
   command entity in the outer loop and those of the location in the inner
   loop; every accepted pair is there once. *)
C27_MoveProduct ==
    (/\ pc # "interpret"
     /\ parses[1].parse.command = "move"
     /\ getValidObjectIds(parses[1].parse.entity.object, CurrentState).error = ""
     /\ getValidObjectIds(parses[1].parse.location.entity.object, CurrentState).error = "")
        => MoveFormula(parses[1].parse)

(* move a ball left of a ball with the three balls in the stacks: six
   pairs, the three of a ball with itself left out *)
C27_Witness ==
    /\ pc = "plan"
    /\ parses[1].parse = Move(ABall, "leftof", ABall)
    /\ Len(TheFormula) = 6

TakeFormula(cmd) ==
    LET ids == getValidObjectIds(cmd.entity.object, CurrentState).ids
        graspable == {n \in 1..Len(ids) : ids[n] # Floor}
    IN  IF graspable = {}
        THEN interpretations.error = NoInterpretation /\ Interpreted = <<>>
        ELSE /\ interpretations.error = ""
             /\ Len(TheFormula) = Cardinality(graspable)
             /\ \A c \in 1..Len(TheFormula) :
                   TheFormula[c] = <<[polarity |-> TRUE, relation |-> "holding",
                                      args |-> <<ids[Nth(graspable, c)]>>]>>

(* C28: the formula of a take command has exactly one conjunction of the one
   positive literal holding(id) for each id the command entity resolves to
   that is not the floor, and nothing else; take the floor fails with
   NoInterpretation. *)
C28_TakeFormula ==
    (/\ pc # "interpret"
     /\ parses[1].parse.command = "take"
     /\ getValidObjectIds(parses[1].parse.entity.object, CurrentState).error = "")
        => TakeFormula(parses[1].parse)

(* take the floor failed with NoInterpretation. *)
C28_Witness ==
    /\ pc = "failed"
    /\ parses[1].parse = Take(TheFloor)
    /\ interpretations.error = NoInterpretation

(* The ids of the world whose definition the description o matches *)
Described(o) == {i \in DOMAIN objects : matches(o, objects[i])}

(* C29: the object the arm holds is never among the ids an entity described
   by form, size and color resolves to, and a description that matches only
   the held object resolves to no id. *)
C29_HeldNotResolved ==
    pc # "interpret" =>
        \A o \in EntityObjects(parses[1].parse) :
            (~hasObject(o) /\ ~DescribesFloor(o)) =>
                /\ world.holding \notin Range(getValidObjectIds(o, CurrentState).ids)
                /\ Range(getValidObjectIds(o, CurrentState).ids) = Described(o) \ {world.holding}
                /\ Described(o) = {world.holding} =>
                      getValidObjectIds(o, CurrentState) = [error |-> "", ids |-> <<>>]

(* take the blue ball while the arm holds it: the description matches only
   the held ball, and the command fails for want of an id. *)
C29_Witness ==
    /\ pc = "failed"
    /\ parses[1].parse = Take(TheBlueBall)
    /\ world.holding = "b"
    /\ interpretations.error = NoInterpretation

(* The target id sits in the stacks exactly at column i, height j. *)
SitsAt(objId, i, j) ==
    /\ i \in 0..Len(heap) - 1
    /\ j \in 0..Len(heap[i + 1]) - 1
    /\ heap[i + 1][j + 1] = objId

OnTopReturned == pc = "ontopReturned"

OnTopOfFloor == call.objIds = <<Floor>>

SomeTargetAt == \E n \in 1..Len(call.objIds) : SitsAt(call.objIds[n], call.i, call.j)

SupportingTargetAt ==
    \E n \in 1..Len(call.objIds) :
        /\ SitsAt(call.objIds[n], call.i, call.j)
        /\ objects[call.objIds[n]].form \notin {"box", "ball"}

(* C30 as stated: isOnTop(targets, col, pos) is true iff some target sits
   exactly at (col, pos), whatever the target's form, and for targets =
   {floor} it is true iff pos < 0. *)
C30_OnTopAnyForm ==
    OnTopReturned =>
        (call.returns = "true") <=> (IF OnTopOfFloor THEN call.j < 0 ELSE SomeTargetAt)

(* C30: isOnTop(targets, col, pos) is true iff some target that is neither
   a box nor a ball sits exactly at (col, pos), and for targets = {floor} it
   is true iff pos < 0. *)
C30_OnTopSupporting ==
    OnTopReturned =>
        (call.returns = "true") <=> (IF OnTopOfFloor THEN call.j < 0 ELSE SupportingTargetAt)

(* isOnTop returned false for a box that sits exactly at (col, pos), under
   the ball inside it. *)
C30_Witness ==
    /\ OnTopReturned
    /\ call.objIds = <<"b">>
    /\ SitsAt("b", call.i, call.j)
    /\ SitsAt("a", call.i, call.j + 1)
    /\ call.returns = "false"

(* Some id of the list is in column i of the stacks, if there is such a
   column. *)
TargetInColumn(objIds, i) ==
    /\ i \in 0..Len(heap) - 1
    /\ \E n \in 1..Len(objIds) : objIds[n] \in Range(heap[i + 1])

(* C31: for every column index col of the world, the leftmost and the
   rightmost included, isBeside(targets, col) returns a boolean, without
   error, that is true iff some target lies in column col - 1 or col + 1. *)
C31_BesideBoolean ==
    pc = "besideReturned" =>
        call.returns = (IF \/ TargetInColumn(call.objIds, call.i - 1)
                           \/ TargetInColumn(call.objIds, call.i + 1)
                        THEN "true" ELSE "false")

(* The physics predicate of the relation holds between the target and the
   place of the subject a, which column col holds at height pos. *)
PredicateHolds(relation, target, col, pos, stacks) ==
    CASE relation = "inside" -> isInside(<<target>>, col, pos - 1, stacks, objects)
      [] relation = "ontop" -> isOnTop(<<target>>, col, pos - 1, stacks, objects)
      [] relation = "leftof" -> isLeftOf(<<target>>, col, stacks)
      [] relation = "rightof" -> isRightOf(<<target>>, col, stacks)
      [] relation = "beside" -> isBeside(<<target>>, col, stacks)
      [] relation = "above" -> isAbove(<<target>>, col, pos, stacks)
      [] relation = "under" -> isUnder(<<target>>, col, pos + 1, stacks)
      [] OTHER -> FALSE

(* The literal is true on the node n: holding(x) iff x is n.holding, and
   relation(a, b) iff a is in a column of n.stacks and the predicate holds. *)
LiteralTrue(literal, n) ==
    IF literal.relation = "holding" THEN literal.args[1] = n.holding
    ELSE \E col \in 0..Len(n.stacks) - 1 : \E pos \in 0..Len(n.stacks[col + 1]) - 1 :
            /\ n.stacks[col + 1][pos + 1] = literal.args[1]
            /\ PredicateHolds(literal.relation, literal.args[2], col, pos, n.stacks)

SomeConjunctionTrue(interpretation, n) ==
    \E i \in 1..Len(interpretation) :
        \A j \in 1..Len(interpretation[i]) : LiteralTrue(interpretation[i][j], n)

(* C32: isGoal(n) is true iff some conjunction of the DNF has all its
   literals true on n, where holding(x) is true iff x is n.holding, and a
   binary literal relation(a, b) is false whenever a is in no column of
   n.stacks, in particular when a is held. *)
C32_GoalIffConjunction ==
    pc = "isGoalReturned" =>
        (call.returns = "true") <=> SomeConjunctionTrue(call.interpretation, CurrentView)

(* The utterance is the words followed by the description of an object. *)
Says(utterance, words) ==
    \E x \in DOMAIN objects : utterance = words \o describeObject(objects[x])

Taking == "Taking the "

Moving == "Moving the "

PicksSaid(p) ==
    /\ \A i \in 2..Len(p) :
          p[i] = "p" =>
             /\ Says(p[i - 1], Taking) <=> i = Len(p)
             /\ Says(p[i - 1], Moving) <=> i # Len(p)
    /\ \A i \in 1..Len(p) : Says(p[i], Taking) => i = Len(p) - 1
    /\ Cardinality({i \in 1..Len(p) : Says(p[i], Taking)}) <= 1

(* C33: in every plan the utterance before a p starts with "Taking the" iff
   that pick is the last action of the path, and with "Moving the"
   otherwise; so "Taking" occurs at most once in a plan, and only as its
   second-to-last element. *)
C33_TakingLast ==
    \A k \in 1..Len(Planned) :
        Planned[k].plan # <<AlreadyTrue>> => PicksSaid(Planned[k].plan)

(* A plan that moves one object away and then takes another *)
C33_Witness ==
    /\ pc = "done"
    /\ \E k \in 1..Len(Planned) : \E i \in 2..Len(Planned[k].plan) :
          /\ Planned[k].plan[i] = "p"
          /\ Says(Planned[k].plan[i - 1], Moving)
          /\ Planned[k].plan[Len(Planned[k].plan)] = "p"
          /\ Says(Planned[k].plan[Len(Planned[k].plan) - 1], Taking)

(* The ids of a node as read: those in its columns and the held one *)
IdsOf(v) == InStacks(v.stacks) \cup (IF v.holding = Null THEN {} ELSE {v.holding})

CountOf(v) == Len(Flatten(v.stacks)) + (IF v.holding = Null THEN 0 ELSE 1)

(* C34: the set of object ids in the stacks together with the held id is the
   same in every node reached through successor edges as in the start node,
   and as many ids occur: no action creates, duplicates or loses an
   object. *)
C34_ObjectsConserved ==
    /\ IdsOf(View(current, heap)) = IdsOf(View(startNode(world), heap))
    /\ CountOf(View(current, heap)) = CountOf(View(startNode(world), heap))

(* An object was picked from one column and dropped in another. *)
C34_Witness ==
    /\ current.command = "d"
    /\ View(current, heap).stacks # View(startNode(world), heap).stacks
    /\ world.holding = Null

(* The command that undoes cmd *)
Reverse(cmd) ==
    CASE cmd = "p" -> "d"
      [] cmd = "d" -> "p"
      [] cmd = "l" -> "r"
      [] cmd = "r" -> "l"

(* Arm, holding and columns of a node as read *)
Situation(v) == [arm |-> v.arm, holding |-> v.holding, stacks |-> v.stacks]

(* Some edge of the list out of the node w undoes the edge that led from v
   to w: it has the reverse command and leads to the situation of v. *)
HasReverse(out, v, w) ==
    \E k \in 1..Len(out.edges) :
        /\ out.edges[k].to.command = Reverse(w.command)
        /\ Situation(View(out.edges[k].to, out.heap)) = Situation(v)

(* C35: from a start state that satisfies the physical laws, every successor
   edge has a reverse edge: pick is undone by a drop that is enabled in the
   resulting state, drop by pick, left by right and right by left, each
   restoring the same (arm, holding, stacks); so each state of a walk can be
   walked back to the start state. *)
C35_EdgesReverse ==
    [][HasReverse(outgoingEdges(current', heap', objects), View(current, heap),
                  View(current', heap'))]_vars

(* A drop put back the object that the pick before it had taken: the walk
   is at the start state again. *)
C35_Witness ==
    /\ steps = 2
    /\ current.command = "d"
    /\ world.holding = Null
    /\ Situation(View(current, heap)) = Situation(View(startNode(world), heap))

(* C36: the heuristic is never negative: for every node and every DNF the
   interpreter emits, heuristics(n) >= 0, also for a beside literal whose
   two objects are in the same column under the arm. *)
C36_NonNegative ==
    pc = "plan" =>
        \A j \in 1..Len(Interpreted) :
            ~heuristicsThrows(StartView, Interpreted[j].interpretation, objects)
                => heuristics(StartView, Interpreted[j].interpretation, objects) >= 0

(* isLiteralGoal returns true for relation(a, b) on the node v. *)
Holds(relation, a, b, v) ==
    /\ ~isLiteralGoalThrows(v, Literal(relation, <<a, b>>))
    /\ isLiteralGoal(v, Literal(relation, <<a, b>>), objects)

Dual(a, b, v) ==
    /\ Holds("leftof", a, b, v) <=> Holds("rightof", b, a, v)
    /\ Holds("above", a, b, v) <=> Holds("under", b, a, v)
    /\ Holds("beside", a, b, v) <=> Holds("beside", b, a, v)
    /\ ~(Holds("ontop", a, b, v) /\ Holds("inside", a, b, v))

DualOn(v) == \A a, b \in InStacks(v.stacks) : Dual(a, b, v)

(* C37: on every node where a and b are both in the stacks, the goal
   literals are dual: leftof(a, b) holds iff rightof(b, a) holds, above(a, b)
   holds iff under(b, a) holds, beside(a, b) holds iff beside(b, a) holds,
   and ontop(a, b) and inside(a, b) never hold together. *)
C37_LiteralsDual == DualOn(View(current, heap))

HoldsSomewhere(relation, v) ==
    \E a, b \in InStacks(v.stacks) : Holds(relation, a, b, v)

(* After a walk, a node where some object is left of another, some above
   another and some inside another *)
C37_Witness ==
    /\ steps > 0
    /\ HoldsSomewhere("leftof", View(current, heap))
    /\ HoldsSomewhere("above", View(current, heap))
    /\ HoldsSomewhere("beside", View(current, heap))
    /\ HoldsSomewhere("inside", View(current, heap))

====
